---- MODULE Spec2Model ----
(***************************************************************************)
(* Model of the line diff engine of js/diff.js (module Diff):              *)
(* computeDiff = split into lines, LCS table, backtrack into an edit       *)
(* script; renderSideBySideDiff = projection of a script on two tracks.    *)
(* A JS string is a sequence of one-character strings; JS arrays are       *)
(* 1-based sequences here, so oldLines[i - 1] of the code is oldLines[i].  *)
(***************************************************************************)
EXTENDS Integers, Sequences, FiniteSets, TLC

\* Longest input text, in characters.
MaxLen == 4

\* Characters of the input texts: two letters and the line separator.
Chars == {"a", "b", "\n"}

Strings == UNION {[1..len -> Chars] : len \in 0..MaxLen}

\* The values a caller passes for a text: null, undefined or a string.
Null == [kind |-> "null", chars |-> <<>>]
Undefined == [kind |-> "undefined", chars |-> <<>>]
Str(s) == [kind |-> "string", chars |-> s]
Values == {Null, Undefined} \cup {Str(s) : s \in Strings}

\* JS truthiness of a text value: null, undefined and "" are falsy.
Truthy(v) == v.kind = "string" /\ v.chars # <<>>

Max(a, b) == IF a >= b THEN a ELSE b

\* String.prototype.split('\n'): the pieces between separators; "" gives [""].
RECURSIVE split(_)
split(s) ==
    IF \A k \in 1..Len(s) : s[k] # "\n"
    THEN <<s>>
    ELSE LET k == CHOOSE p \in 1..Len(s) :
                      s[p] = "\n" /\ \A q \in 1..(p - 1) : s[q] # "\n"
         IN  <<SubSeq(s, 1, k - 1)>> \o split(SubSeq(s, k + 1, Len(s)))

\* Variant: content != null ? content.split('\n') : [], which splits "".
toLinesNullOnly(content) ==
    IF content.kind = "string" THEN split(content.chars) ELSE <<>>

\* content ? content.split('\n') : []
toLines(content) == IF Truthy(content) THEN split(content.chars) ELSE <<>>

\* Variant: the table is filled with 1.
zeroTableOnes(m, n) == [r \in 0..m |-> [c \in 0..n |-> 1]]

\* Array(m + 1).fill(null).map(() => Array(n + 1).fill(0))
zeroTable(m, n) == [r \in 0..m |-> [c \in 0..n |-> 0]]

\* Variant: the else branch takes table[i - 1][j] without the maximum.
lcsCellNoMax(table, oldLines, newLines, i, j) ==
    IF oldLines[i] = newLines[j]
    THEN table[i - 1][j - 1] + 1
    ELSE table[i - 1][j]

\* Variant: the else branch takes table[i][j - 1] without the maximum.
lcsCellLeft(table, oldLines, newLines, i, j) ==
    IF oldLines[i] = newLines[j]
    THEN table[i - 1][j - 1] + 1
    ELSE table[i][j - 1]

\* The body of the inner loop of computeLCSTable: the value of table[i][j].
lcsCell(table, oldLines, newLines, i, j) ==
    IF oldLines[i] = newLines[j]
    THEN table[i - 1][j - 1] + 1
    ELSE Max(table[i - 1][j], table[i][j - 1])

\* The two nested for loops of computeLCSTable, from cell (i, j) on.
RECURSIVE lcsLoop(_, _, _, _, _)
lcsLoop(table, oldLines, newLines, i, j) ==
    IF i > Len(oldLines) THEN table
    ELSE IF j > Len(newLines) THEN lcsLoop(table, oldLines, newLines, i + 1, 1)
    ELSE lcsLoop([table EXCEPT ![i][j] = lcsCell(table, oldLines, newLines, i, j)],
                 oldLines, newLines, i, j + 1)

computeLCSTable(oldLines, newLines) ==
    lcsLoop(zeroTable(Len(oldLines), Len(newLines)), oldLines, newLines, 1, 1)

\* The three op literals of the engine.
unchangedOp(content, i, j) ==
    [type |-> "unchanged", content |-> content, oldLine |-> i, newLine |-> j]
addOp(content, j) == [type |-> "add", content |-> content, newLine |-> j]
\* Variant: the 0-based loop index as oldLine.
delOpZeroBased(content, i) ==
    [type |-> "del", content |-> content, oldLine |-> i - 1]

delOp(content, i) == [type |-> "del", content |-> content, oldLine |-> i]

\* Variant: the insert branch is tested before the equality of the two lines.
backtrackBranchAddFirst(table, oldLines, newLines, i, j) ==
    IF j > 0 /\ (i = 0 \/ table[i][j - 1] >= table[i - 1][j]) THEN "add"
    ELSE IF i > 0 /\ j > 0 /\ oldLines[i] = newLines[j] THEN "unchanged"
    ELSE IF i > 0 THEN "del"
    ELSE "none"

\* Variant: the delete branch is guarded by i > 1.
backtrackBranchDelStrict(table, oldLines, newLines, i, j) ==
    IF i > 0 /\ j > 0 /\ oldLines[i] = newLines[j] THEN "unchanged"
    ELSE IF j > 0 /\ (i = 0 \/ table[i][j - 1] >= table[i - 1][j]) THEN "add"
    ELSE IF i > 1 THEN "del"
    ELSE "none"

\* Variant: the insert branch needs a strictly greater score.
backtrackBranchAddStrict(table, oldLines, newLines, i, j) ==
    IF i > 0 /\ j > 0 /\ oldLines[i] = newLines[j] THEN "unchanged"
    ELSE IF j > 0 /\ (i = 0 \/ table[i][j - 1] > table[i - 1][j]) THEN "add"
    ELSE IF i > 0 THEN "del"
    ELSE "none"

\* Which branch of the while body of backtrackDiff is taken at (i, j):
\* "throw" is the TypeError of reading a cell of a row that does not exist,
\* "none" is an iteration that takes no branch.
backtrackBranch(table, oldLines, newLines, i, j) ==
    IF i > 0 /\ j > 0 /\ oldLines[i] = newLines[j] THEN "unchanged"
    ELSE IF j > 0 /\ i # 0 /\ (i \notin DOMAIN table \/ (i - 1) \notin DOMAIN table)
    THEN "throw"
    ELSE IF j > 0 /\ (i = 0 \/ table[i][j - 1] >= table[i - 1][j]) THEN "add"
    ELSE IF i > 0 THEN "del"
    ELSE "none"

\* Variant: result.push(op) in place of result.unshift(op).
backtrackIterPush(table, oldLines, newLines, i, j, res) ==
    LET b == backtrackBranch(table, oldLines, newLines, i, j) IN
    CASE b = "unchanged" ->
            [i |-> i - 1, j |-> j - 1, branch |-> b,
             result |-> Append(res, unchangedOp(oldLines[i], i, j))]
      [] b = "add" ->
            [i |-> i, j |-> j - 1, branch |-> b,
             result |-> Append(res, addOp(newLines[j], j))]
      [] b = "del" ->
            [i |-> i - 1, j |-> j, branch |-> b,
             result |-> Append(res, delOp(oldLines[i], i))]
      [] OTHER -> [i |-> i, j |-> j, branch |-> b, result |-> res]

\* One iteration of the while loop of backtrackDiff: the new i, j and result.
backtrackIter(table, oldLines, newLines, i, j, res) ==
    LET b == backtrackBranch(table, oldLines, newLines, i, j) IN
    CASE b = "unchanged" ->
            [i |-> i - 1, j |-> j - 1, branch |-> b,
             result |-> <<unchangedOp(oldLines[i], i, j)>> \o res]
      [] b = "add" ->
            [i |-> i, j |-> j - 1, branch |-> b,
             result |-> <<addOp(newLines[j], j)>> \o res]
      [] b = "del" ->
            [i |-> i - 1, j |-> j, branch |-> b,
             result |-> <<delOp(oldLines[i], i)>> \o res]
      [] OTHER -> [i |-> i, j |-> j, branch |-> b, result |-> res]

\* Variant: newLine: i, the 0-based index of map.
allAddedZeroBased(newLines) ==
    [k \in 1..Len(newLines) |-> addOp(newLines[k], k - 1)]

\* newLines.map((line, i) => ({type: 'add', content: line, newLine: i + 1}))
allAdded(newLines) == [k \in 1..Len(newLines) |-> addOp(newLines[k], k)]

\* oldLines.map((line, i) => ({type: 'del', content: line, oldLine: i + 1}))
allDeleted(oldLines) == [k \in 1..Len(oldLines) |-> delOp(oldLines[k], k)]

\* The rows one op adds to the two tracks of renderSideBySideDiff
\* (the switch has no default: an op of another type adds nothing).
emptyCell == [type |-> "empty", content |-> <<>>, lineNum |-> <<>>]

\* Variant: an 'add' op pushes no placeholder on the left track.
sideBySideRowNoPlaceholder(item) ==
    CASE item.type = "unchanged" ->
            [left |-> <<[type |-> "unchanged", content |-> item.content,
                         lineNum |-> item.oldLine]>>,
             right |-> <<[type |-> "unchanged", content |-> item.content,
                          lineNum |-> item.newLine]>>]
      [] item.type = "del" ->
            [left |-> <<[type |-> "del", content |-> item.content,
                         lineNum |-> item.oldLine]>>,
             right |-> <<emptyCell>>]
      [] item.type = "add" ->
            [left |-> <<>>,
             right |-> <<[type |-> "add", content |-> item.content,
                          lineNum |-> item.newLine]>>]
      [] OTHER -> [left |-> <<>>, right |-> <<>>]

\* Variant: the right cell of an 'unchanged' op carries item.oldLine.
sideBySideRowOldNumber(item) ==
    CASE item.type = "unchanged" ->
            [left |-> <<[type |-> "unchanged", content |-> item.content,
                         lineNum |-> item.oldLine]>>,
             right |-> <<[type |-> "unchanged", content |-> item.content,
                          lineNum |-> item.oldLine]>>]
      [] item.type = "del" ->
            [left |-> <<[type |-> "del", content |-> item.content,
                         lineNum |-> item.oldLine]>>,
             right |-> <<emptyCell>>]
      [] item.type = "add" ->
            [left |-> <<emptyCell>>,
             right |-> <<[type |-> "add", content |-> item.content,
                          lineNum |-> item.newLine]>>]
      [] OTHER -> [left |-> <<>>, right |-> <<>>]

sideBySideRow(item) ==
    CASE item.type = "unchanged" ->
            [left |-> <<[type |-> "unchanged", content |-> item.content,
                         lineNum |-> item.oldLine]>>,
             right |-> <<[type |-> "unchanged", content |-> item.content,
                          lineNum |-> item.newLine]>>]
      [] item.type = "del" ->
            [left |-> <<[type |-> "del", content |-> item.content,
                         lineNum |-> item.oldLine]>>,
             right |-> <<emptyCell>>]
      [] item.type = "add" ->
            [left |-> <<emptyCell>>,
             right |-> <<[type |-> "add", content |-> item.content,
                          lineNum |-> item.newLine]>>]
      [] OTHER -> [left |-> <<>>, right |-> <<>>]

\* diff.forEach(item => ...) of renderSideBySideDiff, from op k on.
RECURSIVE sideBySideLoop(_, _, _, _)
sideBySideLoop(diff, k, leftLines, rightLines) ==
    IF k > Len(diff) THEN [leftLines |-> leftLines, rightLines |-> rightLines]
    ELSE LET row == sideBySideRow(diff[k])
         IN  sideBySideLoop(diff, k + 1, leftLines \o row.left, rightLines \o row.right)

renderSideBySideDiff(diff) == sideBySideLoop(diff, 1, <<>>, <<>>)

\* Number to string, as the assignment of a number to textContent does.
RECURSIVE toDecimal(_)
toDecimal(n) ==
    LET digit == <<"0", "1", "2", "3", "4", "5", "6", "7", "8", "9">> IN
    IF n < 10 THEN <<digit[n + 1]>>
    ELSE toDecimal(n \div 10) \o <<digit[(n % 10) + 1]>>

\* item.f is truthy: the property exists and is not the number 0.
hasLine(item, f) == f \in DOMAIN item /\ item[f] # 0

\* Variant: the 'add' case reads item.oldLine.
unifiedLineNumOld(item) ==
    CASE item.type = "add" ->
            IF hasLine(item, "oldLine") THEN toDecimal(item.oldLine) ELSE <<>>
      [] item.type = "del" ->
            IF hasLine(item, "oldLine") THEN toDecimal(item.oldLine) ELSE <<>>
      [] OTHER ->
            IF hasLine(item, "oldLine") THEN toDecimal(item.oldLine)
            ELSE IF hasLine(item, "newLine") THEN toDecimal(item.newLine)
            ELSE <<>>

\* lineNum.textContent of renderUnifiedDiff: item.newLine || '' for 'add',
\* item.oldLine || '' for 'del', item.oldLine || item.newLine || '' otherwise.
unifiedLineNum(item) ==
    CASE item.type = "add" ->
            IF hasLine(item, "newLine") THEN toDecimal(item.newLine) ELSE <<>>
      [] item.type = "del" ->
            IF hasLine(item, "oldLine") THEN toDecimal(item.oldLine) ELSE <<>>
      [] OTHER ->
            IF hasLine(item, "oldLine") THEN toDecimal(item.oldLine)
            ELSE IF hasLine(item, "newLine") THEN toDecimal(item.newLine)
            ELSE <<>>

\* marker.textContent of renderUnifiedDiff.
unifiedMarker(item) ==
    CASE item.type = "add" -> "+"
      [] item.type = "del" -> "-"
      [] OTHER -> " "

\* The line element renderUnifiedDiff appends for one op: its class
\* diff-line-<type>, and the text of its number, marker and content spans.
unifiedRow(item) ==
    [class |-> item.type, lineNum |-> unifiedLineNum(item),
     marker |-> unifiedMarker(item), content |-> item.content]

\* diff.forEach(item => ... container.appendChild(line)) of renderUnifiedDiff.
renderUnifiedDiff(diff) == [k \in 1..Len(diff) |-> unifiedRow(diff[k])]

\* diff.forEach(item => switch (item.type) ...) of getDiffStats, from op k on.
RECURSIVE statsLoop(_, _, _)
statsLoop(diff, k, acc) ==
    IF k > Len(diff) THEN acc
    ELSE statsLoop(diff, k + 1,
             CASE diff[k].type = "add" -> [acc EXCEPT !.additions = @ + 1]
               [] diff[k].type = "del" -> [acc EXCEPT !.deletions = @ + 1]
               [] OTHER -> [acc EXCEPT !.unchanged = @ + 1])

getDiffStats(diff) ==
    statsLoop(diff, 1, [additions |-> 0, deletions |-> 0, unchanged |-> 0])

\* The array a projection was given, as the projection leaves it: the forEach
\* callbacks of renderSideBySideDiff, renderUnifiedDiff and getDiffStats read
\* item.type, item.content, item.oldLine and item.newLine and write to neither
\* the array nor its items.
diffAfterSideBySide(diff) == diff
diffAfterUnified(diff) == diff

\* Variant: the loop of getDiffStats consumes the array with diff.shift().
diffAfterStatsShift(diff) == <<>>

diffAfterStats(diff) == diff

VARIABLES
    oldContent,   \* first argument of the current computeDiff call
    newContent,   \* second argument of the current computeDiff call
    pc,           \* "idle", "backtrack" (in the while loop), "done", "threw", "rendered"
    oldLines,     \* local oldLines of computeDiff
    newLines,     \* local newLines of computeDiff
    table,        \* local table of computeDiff
    i,            \* loop index i of backtrackDiff
    j,            \* loop index j of backtrackDiff
    result,       \* local result of backtrackDiff, then the returned script
    leftLines,    \* left track returned by renderSideBySideDiff
    rightLines,   \* right track returned by renderSideBySideDiff
    history,      \* the calls a caller has completed: arguments and returned script
    unifiedRows,  \* children of the container returned by renderUnifiedDiff
    proj,         \* the projections called on one script: first and last outputs
    api,          \* state of the API module: useCorsProxy, cache, and the clock
    job,          \* frame of one getCommitDiff call and of the rendering of its result
    view,         \* frame of one renderBeforeAfterView call of the application
    form,         \* the form: code, dates, compare button, requests issued
    calls,        \* frames of the fetchWithCache calls made so far
    changes,      \* changes view: the clicks on commits and the detail pane
    scroll        \* side-by-side view: scroll positions, pending events and timers

diffVars == <<oldContent, newContent, pc, oldLines, newLines, table, i, j, result,
              leftLines, rightLines, history>>

\* The state of the page outside of the two aggregations and of the form.
pageVars == <<calls, changes, scroll>>

\* The state outside of the diff engine and of the scroll synchronisation.
appVarsButScroll == <<unifiedRows, proj, api, job, view, form, calls, changes>>

\* The state outside of the diff engine and of renderSideBySideDiff.
appVars == <<unifiedRows, proj, api, job, view, form, pageVars>>

vars == <<diffVars, appVars>>

\* Variant: result is an array of the module, never emptied between calls.
keptResult == result

\* const result = [] of backtrackDiff: every call starts from its own empty array.
newResult == <<>>

\* No projection called yet.
ProjInit == [first |-> <<>>, last |-> <<>>, log |-> <<>>]

\* let useCorsProxy = false; const cache = new Map(); now is Date.now().
ApiInit == [useCorsProxy |-> FALSE, cache |-> <<>>, now |-> 0]

\* What the server holds for one commit: the object of /git/commits/<sha>
\* and the stats of the commit in the list of /commits.
NoServer == [commit |-> [sha |-> "head"], listed |-> [sha |-> "head"]]

\* The frame of getCommitDiff(repoName, sha) before the call: its locals, the
\* requests in flight, the retrievals started and settled so far, and the
\* detail pane that renderCommitDetail fills from its result.
JobIdle(server) ==
    [pc |-> "idle", server |-> server, commit |-> <<>>, parentSha |-> "null",
     files |-> <<>>, k |-> 1, slots |-> <<>>, diffs |-> <<>>, inflight |-> {},
     started |-> <<>>, settled |-> <<>>, report |-> <<>>]

\* No getCommitDiff call yet.
JobInit == JobIdle(NoServer)

\* The frame of renderBeforeAfterView(repoName, commits) before the call:
\* its argument and locals, the request in flight, the commits whose detail
\* was requested and those whose detail was loaded, and the two panes.
ViewIdle(commits) ==
    [pc |-> "idle", commits |-> commits, k |-> 1, leftLines |-> <<>>,
     rightLines |-> <<>>, inflight |-> {}, started |-> <<>>, loaded |-> <<>>,
     failed |-> <<>>, diffLeft |-> <<>>, diffRight |-> <<>>]

\* No renderBeforeAfterView call yet.
ViewInit == ViewIdle(<<>>)

\* The digits of n, at least `width' of them (padStart with zeros).
padDigits(n, width) ==
    LET d == toDecimal(n)
    IN  [x \in 1..(IF Len(d) < width THEN width - Len(d) ELSE 0) |-> "0"] \o d

\* The value of a date input that holds a date: yyyy-mm-dd, the year with
\* four digits or more (toISOString().split('T')[0] gives the same form).
formatDateForInput(date) ==
    padDigits(date.year, 4) \o <<"-">> \o padDigits(date.month, 2)
        \o <<"-">> \o padDigits(date.day, 2)

\* new Date() at page load, and the same day one month before.
Today == [year |-> 2024, month |-> 1, day |-> 1]
OneMonthAgo == [year |-> 2023, month |-> 12, day |-> 1]

\* The form at page load: no code selected, the default dates, the button
\* as the page declares it, and no fetchCommits issued yet.
FormIdle(disabled) ==
    [code |-> "", dateStart |-> formatDateForInput(OneMonthAgo),
     dateEnd |-> formatDateForInput(Today), disabled |-> disabled,
     last |-> "load", clicks |-> 0, issued |-> <<>>,
     loading |-> FALSE, error |-> FALSE, results |-> FALSE,
     errorMessage |-> <<>>, pending |-> {}, currentCommits |-> <<>>]

\* The form before the first change event.
FormInit == FormIdle(TRUE)

\* No fetchWithCache call yet.
CallsInit == <<>>

\* The changes view before a click on a commit: no click, no request, the
\* placeholder in the header and an empty diff.
ChangesInit ==
    [clicks |-> <<>>, pending |-> {}, header |-> <<>>,
     diff |-> [kind |-> "placeholder", sha |-> 0]]

\* Both panes at the top, syncing false, no scroll event and no timer
\* pending, no scroll by the user yet.
ScrollInit ==
    [top |-> [left |-> 0, right |-> 0], syncing |-> FALSE, events |-> {},
     timers |-> 0, scrolls |-> <<>>]

\* Nothing has happened on the page outside of the aggregations and the form.
InitPage ==
    /\ calls = CallsInit
    /\ changes = ChangesInit
    /\ scroll = ScrollInit

\* computeDiff is not yet called and nothing is rendered.
InitDiff ==
    /\ pc = "idle"
    /\ oldLines = <<>>
    /\ newLines = <<>>
    /\ table = <<>>
    /\ i = 0
    /\ j = 0
    /\ result = <<>>
    /\ leftLines = <<>>
    /\ rightLines = <<>>
    /\ history = <<>>
    /\ unifiedRows = <<>>
    /\ proj = ProjInit

\* A caller holds two texts and has not called computeDiff yet.
Init ==
    /\ oldContent \in Values
    /\ newContent \in Values
    /\ InitDiff
    /\ InitPage
    /\ api = ApiInit
    /\ job = JobInit
    /\ view = ViewInit
    /\ form = FormInit

\* computeDiff(o, n) up to its return or to the entry of the while loop.
CallOn(o, n) ==
    /\ oldContent' = o
    /\ newContent' = n
    /\ oldLines' = toLines(o)
    /\ newLines' = toLines(n)
    /\ leftLines' = <<>>
    /\ rightLines' = <<>>
    /\ IF Len(oldLines') = 0 /\ Len(newLines') = 0
       THEN /\ result' = <<>>
            /\ pc' = "done"
            /\ UNCHANGED <<table, i, j>>
       ELSE IF Len(oldLines') = 0
       THEN /\ result' = allAdded(newLines')
            /\ pc' = "done"
            /\ UNCHANGED <<table, i, j>>
       ELSE IF Len(newLines') = 0
       THEN /\ result' = allDeleted(oldLines')
            /\ pc' = "done"
            /\ UNCHANGED <<table, i, j>>
       ELSE /\ table' = computeLCSTable(oldLines', newLines')
            /\ i' = Len(oldLines')
            /\ j' = Len(newLines')
            /\ result' = newResult
            /\ pc' = "backtrack"

\* The caller calls computeDiff(oldContent, newContent).
Call ==
    /\ pc = "idle"
    /\ CallOn(oldContent, newContent)
    /\ UNCHANGED <<history, appVars>>

\* One iteration of the while loop of backtrackDiff.
BacktrackStep ==
    /\ pc = "backtrack"
    /\ i > 0 \/ j > 0
    /\ LET it == backtrackIter(table, oldLines, newLines, i, j, result) IN
       /\ i' = it.i
       /\ j' = it.j
       /\ result' = it.result
       /\ pc' = IF it.branch = "throw" THEN "threw" ELSE "backtrack"
    /\ UNCHANGED <<oldContent, newContent, oldLines, newLines, table,
                   leftLines, rightLines, history, appVars>>

\* The loop condition is false: backtrackDiff and computeDiff return result.
Return ==
    /\ pc = "backtrack"
    /\ ~(i > 0 \/ j > 0)
    /\ pc' = "done"
    /\ table' = <<>>
    /\ i' = 0
    /\ j' = 0
    /\ UNCHANGED <<oldContent, newContent, oldLines, newLines, result,
                   leftLines, rightLines, history, appVars>>

\* renderSideBySideDiff(result) on the script a call returned.
Render ==
    /\ pc = "done"
    /\ LET r == renderSideBySideDiff(result) IN
       /\ leftLines' = r.leftLines
       /\ rightLines' = r.rightLines
    /\ pc' = "rendered"
    /\ UNCHANGED <<oldContent, newContent, oldLines, newLines, table, i, j, result,
                   history, appVars>>

\* renderUnifiedDiff(result) on the script a call returned.
RenderUnified ==
    /\ pc = "done"
    /\ unifiedRows' = renderUnifiedDiff(result)
    /\ pc' = "unified"
    /\ UNCHANGED <<oldContent, newContent, oldLines, newLines, table, i, j, result,
                   leftLines, rightLines, history, proj, api, job, view, form, pageVars>>

Next == Call \/ BacktrackStep \/ Return \/ Render \/ RenderUnified

Spec == Init /\ [][Next]_vars

\* A caller that calls computeDiff several times in a row: it keeps the script
\* of the call that returned and calls again with two texts of Sample.
MaxCalls == 3

Sample == {Null, Str(<<"a", "\n", "b">>), Str(<<"b", "\n", "a">>)}

InitCalls ==
    /\ Init
    /\ oldContent \in Sample
    /\ newContent \in Sample

Again ==
    /\ pc = "done"
    /\ Len(history) < MaxCalls
    /\ history' = Append(history, [old |-> oldContent, new |-> newContent,
                                    script |-> result])
    /\ oldContent' \in Sample
    /\ newContent' \in Sample
    /\ pc' = "idle"
    /\ UNCHANGED <<oldLines, newLines, table, i, j, result, leftLines, rightLines,
                   appVars>>

NextCalls == Call \/ BacktrackStep \/ Return \/ Again

CallsSpec == InitCalls /\ [][NextCalls]_vars

\* A caller that calls the three projections on the script of one computeDiff
\* call, MaxProj times in all, in any order; it records the first and the
\* last value each projection returned.
MaxProj == 3

InitProj ==
    /\ Init
    /\ oldContent \in Sample
    /\ newContent \in Sample

Recorded(name, out) ==
    [first |-> IF name \in DOMAIN proj.first THEN proj.first
               ELSE (name :> out) @@ proj.first,
     last |-> (name :> out) @@ proj.last,
     log |-> Append(proj.log, name)]

ProjSideBySide ==
    /\ pc = "done"
    /\ Len(proj.log) < MaxProj
    /\ LET r == renderSideBySideDiff(result) IN
       /\ leftLines' = r.leftLines
       /\ rightLines' = r.rightLines
       /\ proj' = Recorded("sideBySide", r)
    /\ result' = diffAfterSideBySide(result)
    /\ UNCHANGED <<oldContent, newContent, pc, oldLines, newLines, table, i, j,
                   history, unifiedRows, api, job, view, form, pageVars>>

ProjUnified ==
    /\ pc = "done"
    /\ Len(proj.log) < MaxProj
    /\ unifiedRows' = renderUnifiedDiff(result)
    /\ proj' = Recorded("unified", unifiedRows')
    /\ result' = diffAfterUnified(result)
    /\ UNCHANGED <<oldContent, newContent, pc, oldLines, newLines, table, i, j,
                   leftLines, rightLines, history, api, job, view, form, pageVars>>

ProjStats ==
    /\ pc = "done"
    /\ Len(proj.log) < MaxProj
    /\ proj' = Recorded("stats", getDiffStats(result))
    /\ result' = diffAfterStats(result)
    /\ UNCHANGED <<oldContent, newContent, pc, oldLines, newLines, table, i, j,
                   leftLines, rightLines, history, unifiedRows, api, job, view, form, pageVars>>

NextProj ==
    Call \/ BacktrackStep \/ Return \/ ProjSideBySide \/ ProjUnified \/ ProjStats

ProjSpec == InitProj /\ [][NextProj]_vars

(***************************************************************************)
(* The API module (js/ui.js): fetchWithFallback, fetchWithCache,           *)
(* fetchFileAtCommit, getCommitDiff, and renderCommitDetail with           *)
(* renderMultiFileDiff on the result of getCommitDiff.                     *)
(***************************************************************************)
\* Longest list of files of a commit.
MaxFiles == 2

\* Age under which fetchFileAtCommit and getCommitDiff reuse a cache entry.
HourTtl == 3600000

FileNames == {"f", "g"}

\* An entry of commit.files: the server gives a filename and a status, and
\* gives or omits the line counts.
ServerFiles ==
    {[filename |-> n, status |-> "modified"] : n \in FileNames}
    \cup {[filename |-> n, status |-> "added", additions |-> 2, deletions |-> 0] :
              n \in FileNames}

ServerFileLists == UNION {[1..len -> ServerFiles] : len \in 0..MaxFiles}

\* The commit object of the server: with or without a parent, with or
\* without a files property.
ServerCommits ==
    {[sha |-> "head", parents |-> ps] : ps \in {<<>>, <<[sha |-> "parent"]>>}}
    \cup {[sha |-> "head", parents |-> ps, files |-> fs] :
              ps \in {<<>>, <<[sha |-> "parent"]>>}, fs \in ServerFileLists}

\* The commit of the list of fetchCommits: the server gives or omits stats.
ListedCommits ==
    {[sha |-> "head"], [sha |-> "head", stats |-> [additions |-> 3, deletions |-> 1]]}

\* The text of a file at a commit, as the server serves it.
ServerText(sha, filename) ==
    CASE sha = "head" /\ filename = "f" -> Str(<<"a", "\n", "b">>)
      [] sha = "parent" /\ filename = "f" -> Str(<<"b", "\n", "a">>)
      [] sha = "head" /\ filename = "g" -> Str(<<"a">>)
      [] OTHER -> Str(<<"a", "\n", "a">>)

\* How a fetch() settles: a 2xx response, a 404, a 500, or a rejection with
\* a TypeError (network or CORS failure).
Outcomes == {"ok", "http404", "http500", "network"}

\* The error a failed fetch leaves in the try block of fetchWithFallback.
fetchError(outcome) ==
    CASE outcome = "http404" -> [name |-> "Error", message |-> "HTTP 404", cors |-> FALSE]
      [] outcome = "http500" -> [name |-> "Error", message |-> "HTTP 500", cors |-> FALSE]
      [] OTHER -> [name |-> "TypeError", message |-> "Failed to fetch", cors |-> FALSE]

\* Variant: the catch block retries on every TypeError.
fetchWithFallbackAlways(stage, outcome, useCorsProxy) ==
    IF outcome = "ok"
    THEN [then |-> "resolve", useCorsProxy |-> useCorsProxy]
    ELSE IF fetchError(outcome).name = "TypeError" \/ fetchError(outcome).cors
    THEN [then |-> "retry", useCorsProxy |-> TRUE]
    ELSE [then |-> "reject", useCorsProxy |-> useCorsProxy,
          error |-> fetchError(outcome)]

\* fetchWithFallback when the fetch of the given stage (1: in the try block,
\* 2: in the catch block, through the proxy) settles: it resolves, rejects,
\* or sets useCorsProxy and fetches again.
fetchWithFallback(stage, outcome, useCorsProxy) ==
    IF outcome = "ok"
    THEN [then |-> "resolve", useCorsProxy |-> useCorsProxy]
    ELSE IF stage = 1 /\ ~useCorsProxy
            /\ (fetchError(outcome).name = "TypeError" \/ fetchError(outcome).cors)
    THEN [then |-> "retry", useCorsProxy |-> TRUE]
    ELSE [then |-> "reject", useCorsProxy |-> useCorsProxy,
          error |-> fetchError(outcome)]

\* cacheKey of fetchFileAtCommit and of getCommitDiff.
fileKey(sha, filename) == <<"file", sha, filename>>
diffKey(sha) == <<"diff", sha>>

\* Variant: an entry is reused whatever its age.
cacheHitAnyAge(cache, key, now, ttl) == key \in DOMAIN cache

\* cached && Date.now() - cached.timestamp < ttl
cacheHit(cache, key, now, ttl) ==
    key \in DOMAIN cache /\ now - cache[key].timestamp < ttl

\* cache.set(cacheKey, {data, timestamp: Date.now()})
cacheSet(cache, key, data, now) ==
    (key :> [data |-> data, timestamp |-> now]) @@ cache

\* Variant: the catch block of fetchFileAtCommit caches the null it returns.
fileCacheAlways(cache, fb, key, content, now) == cacheSet(cache, key, content, now)

\* fetchFileAtCommit after fetchWithFallback: cache.set in the try block
\* only, nothing in the catch block.
fileCache(cache, fb, key, content, now) ==
    IF fb.then = "resolve" THEN cacheSet(cache, key, content, now) ELSE cache

\* What fetchFileAtCommit returns: the content in the try block, null in
\* the catch block (both of its branches).
fileContent(fb, text) == IF fb.then = "resolve" THEN text ELSE Null

\* The sha a retrieval of the current or of the previous content asks for.
shaOf(jb, side) == IF side = "current" THEN jb.commit.sha ELSE jb.parentSha

\* Variant: a file already present in diffs is skipped.
pushDiffUnique(diffs, entry) ==
    IF \E d \in DOMAIN diffs : diffs[d].filename = entry.filename THEN diffs
    ELSE Append(diffs, entry)

\* diffs.push({filename, status, additions, deletions, previousContent, currentContent})
pushDiff(diffs, entry) == Append(diffs, entry)

\* file.additions || 0
orZero(rec, f) == IF f \in DOMAIN rec /\ rec[f] # 0 THEN rec[f] ELSE 0

diffEntry(file, previousContent, currentContent) ==
    [filename |-> file.filename, status |-> file.status,
     additions |-> orZero(file, "additions"), deletions |-> orZero(file, "deletions"),
     previousContent |-> previousContent, currentContent |-> currentContent]

\* Variant: Promise.all on the two fetchFileAtCommit calls of a file.
RECURSIVE advanceBoth(_, _, _)
advanceBoth(jb, cache, now) ==
    IF jb.k > Len(jb.files) THEN [jb EXCEPT !.pc = "done"]
    ELSE LET file == jb.files[jb.k]
             sides == IF jb.parentSha = "null" THEN {"current"}
                      ELSE {"current", "previous"}
             hits == {sd \in sides \ DOMAIN jb.slots :
                         cacheHit(cache, fileKey(shaOf(jb, sd), file.filename),
                                  now, HourTtl)}
             miss == (sides \ DOMAIN jb.slots) \ hits
             got == [sd \in DOMAIN jb.slots \cup hits |->
                        IF sd \in DOMAIN jb.slots THEN jb.slots[sd]
                        ELSE cache[fileKey(shaOf(jb, sd), file.filename)].data]
         IN  IF miss # {}
             THEN [jb EXCEPT !.pc = "await", !.slots = got,
                      !.inflight = {[kind |-> sd, k |-> jb.k, stage |-> 1] : sd \in miss},
                      !.started = @ \o (IF "current" \in miss
                                         THEN <<[kind |-> "current", k |-> jb.k]>>
                                         ELSE <<>>)
                                    \o (IF "previous" \in miss
                                         THEN <<[kind |-> "previous", k |-> jb.k]>>
                                         ELSE <<>>)]
             ELSE advanceBoth(
                      [jb EXCEPT !.diffs = pushDiff(@, diffEntry(file,
                                      IF "previous" \in DOMAIN got THEN got["previous"]
                                      ELSE Null, got["current"])),
                                 !.k = @ + 1, !.slots = <<>>],
                      cache, now)

\* getCommitDiff from the point where it runs, up to its next await of a
\* network response or to its return: the for loop over files, with
\* fetchFileAtCommit for the current content, then for the previous content
\* when there is a parent; a fetchFileAtCommit that finds a fresh cache
\* entry returns it without a request.
RECURSIVE advance(_, _, _)
advance(jb, cache, now) ==
    IF jb.k > Len(jb.files) THEN [jb EXCEPT !.pc = "done"]
    ELSE LET file == jb.files[jb.k] IN
         IF "current" \notin DOMAIN jb.slots
         THEN IF cacheHit(cache, fileKey(jb.commit.sha, file.filename), now, HourTtl)
              THEN advance([jb EXCEPT !.slots = ("current" :>
                                cache[fileKey(jb.commit.sha, file.filename)].data) @@ @],
                           cache, now)
              ELSE [jb EXCEPT !.pc = "await",
                       !.inflight = {[kind |-> "current", k |-> jb.k, stage |-> 1]},
                       !.started = Append(@, [kind |-> "current", k |-> jb.k])]
         ELSE IF "previous" \notin DOMAIN jb.slots
         THEN IF jb.parentSha = "null"
              THEN advance([jb EXCEPT !.slots = ("previous" :> Null) @@ @], cache, now)
              ELSE IF cacheHit(cache, fileKey(jb.parentSha, file.filename), now, HourTtl)
              THEN advance([jb EXCEPT !.slots = ("previous" :>
                                cache[fileKey(jb.parentSha, file.filename)].data) @@ @],
                           cache, now)
              ELSE [jb EXCEPT !.pc = "await",
                       !.inflight = {[kind |-> "previous", k |-> jb.k, stage |-> 1]},
                       !.started = Append(@, [kind |-> "previous", k |-> jb.k])]
         ELSE advance([jb EXCEPT !.diffs = pushDiff(@, diffEntry(file,
                                     jb.slots["previous"], jb.slots["current"])),
                                !.k = @ + 1, !.slots = <<>>],
                      cache, now)

\* getCommitDiff once it has the commit object: parentSha, files, the loop.
withCommit(jb, commit, cache, now) ==
    advance([jb EXCEPT !.commit = commit,
                !.parentSha = IF "parents" \in DOMAIN commit /\ Len(commit.parents) > 0
                              THEN commit.parents[1].sha ELSE "null",
                !.files = IF "files" \in DOMAIN commit THEN commit.files ELSE <<>>],
            cache, now)

\* getCommitDiff(repoName, sha) is called: fetchWithCache on the commit.
JobStart ==
    /\ job.pc = "idle"
    /\ job' = IF cacheHit(api.cache, diffKey(job.server.commit.sha), api.now, HourTtl)
              THEN withCommit(job, api.cache[diffKey(job.server.commit.sha)].data,
                              api.cache, api.now)
              ELSE [job EXCEPT !.pc = "await",
                       !.inflight = {[kind |-> "commit", k |-> 0, stage |-> 1]},
                       !.started = Append(@, [kind |-> "commit", k |-> 0])]
    /\ UNCHANGED <<diffVars, unifiedRows, proj, api, view, form, pageVars>>

\* A fetch of a request in flight settles, and the code awaiting it runs up
\* to its next await: fetchWithFallback, then fetchWithCache and
\* getCommitDiff (commit) or fetchFileAtCommit and getCommitDiff (file).
JobSettleOn(r, outcome) ==
    LET fb == fetchWithFallback(r.stage, outcome, api.useCorsProxy)
        rest == job.inflight \ {r}
    IN
    IF fb.then = "retry"
    THEN /\ job' = [job EXCEPT !.inflight = rest \cup {[r EXCEPT !.stage = 2]}]
         /\ api' = [api EXCEPT !.useCorsProxy = fb.useCorsProxy]
    ELSE IF r.kind = "commit"
    THEN IF fb.then = "resolve"
         THEN /\ api' = [api EXCEPT !.useCorsProxy = fb.useCorsProxy,
                             !.cache = cacheSet(@, diffKey(job.server.commit.sha),
                                                job.server.commit, api.now)]
              /\ job' = withCommit([job EXCEPT !.inflight = rest], job.server.commit,
                                   api'.cache, api.now)
         ELSE /\ api' = [api EXCEPT !.useCorsProxy = fb.useCorsProxy]
              /\ job' = [job EXCEPT !.inflight = rest, !.pc = "failed"]
    ELSE LET key == fileKey(shaOf(job, r.kind), job.files[r.k].filename)
             content == fileContent(fb, ServerText(shaOf(job, r.kind),
                                                   job.files[r.k].filename))
             jb == [job EXCEPT !.inflight = rest,
                       !.slots = (r.kind :> content) @@ @,
                       !.settled = Append(@, [kind |-> r.kind, k |-> r.k, key |-> key,
                                              outcome |-> outcome, value |-> content])]
         IN  /\ api' = [api EXCEPT !.useCorsProxy = fb.useCorsProxy,
                            !.cache = fileCache(@, fb, key, content, api.now)]
             /\ job' = IF rest = {} THEN advance(jb, api'.cache, api.now) ELSE jb

JobSettle ==
    /\ job.pc = "await"
    /\ \E r \in job.inflight : \E outcome \in Outcomes : JobSettleOn(r, outcome)
    /\ UNCHANGED <<diffVars, unifiedRows, proj, view, form, pageVars>>

\* previousContent || '' and currentContent || '' of renderMultiFileDiff.
orEmpty(content) == IF Truthy(content) THEN content ELSE Str(<<>>)

\* backtrackDiff as a function: the while loop run to its exit.
RECURSIVE backtrackDiff(_, _, _, _, _, _)
backtrackDiff(tbl, ol, nl, a, b, res) ==
    IF a > 0 \/ b > 0
    THEN LET it == backtrackIter(tbl, ol, nl, a, b, res) IN
         IF it.branch \in {"unchanged", "add", "del"}
         THEN backtrackDiff(tbl, ol, nl, it.i, it.j, it.result)
         ELSE res
    ELSE res

\* computeDiff as a function of its two arguments.
computeDiff(o, n) ==
    LET ol == toLines(o)
        nl == toLines(n)
    IN  IF Len(ol) = 0 /\ Len(nl) = 0 THEN <<>>
        ELSE IF Len(ol) = 0 THEN allAdded(nl)
        ELSE IF Len(nl) = 0 THEN allDeleted(ol)
        ELSE backtrackDiff(computeLCSTable(ol, nl), ol, nl, Len(ol), Len(nl), newResult)

\* The header and the unified diff renderMultiFileDiff appends for one file
\* (escapeHtml, then the parsing of innerHTML, shows the filename as it is).
multiFileEntry(file) ==
    LET diff == computeDiff(orEmpty(file.previousContent), orEmpty(file.currentContent))
    IN  [statusIcon |-> IF file.status = "added" THEN "+"
                        ELSE IF file.status = "deleted" THEN "-" ELSE "~",
         filename |-> file.filename,
         additions |-> file.additions, deletions |-> file.deletions,
         script |-> diff, rows |-> renderUnifiedDiff(diff)]

renderMultiFileDiff(fileDiffs) ==
    [f \in 1..Len(fileDiffs) |-> multiFileEntry(fileDiffs[f])]

\* stats: commit.stats || {additions: 0, deletions: 0} of fetchCommits.
listedStats(listed) ==
    IF "stats" \in DOMAIN listed THEN listed.stats ELSE [additions |-> 0, deletions |-> 0]

\* renderCommitDetail(commit, fileDiffs) of the UI module: the header with
\* the number of files and the stats of the commit, then the diffs.
renderCommitDetail(listed, fileDiffs) ==
    [files |-> Len(fileDiffs),
     additions |-> orZero(listedStats(listed), "additions"),
     deletions |-> orZero(listedStats(listed), "deletions"),
     noResults |-> Len(fileDiffs) = 0,
     entries |-> IF Len(fileDiffs) = 0 THEN <<>> ELSE renderMultiFileDiff(fileDiffs)]

\* The result of getCommitDiff is rendered.
JobRender ==
    /\ job.pc = "done"
    /\ job' = [job EXCEPT !.pc = "rendered",
                  !.report = renderCommitDetail(job.server.listed, job.diffs)]
    /\ UNCHANGED <<diffVars, unifiedRows, proj, api, view, form, pageVars>>

\* The page is loaded and the server holds some commit.
InitJob ==
    /\ oldContent = Null
    /\ newContent = Null
    /\ InitDiff
    /\ InitPage
    /\ api = ApiInit
    /\ \E c \in ServerCommits, l \in ListedCommits :
           job = JobIdle([commit |-> c, listed |-> l])
    /\ view = ViewInit
    /\ form = FormInit

NextJob == JobStart \/ JobSettle \/ JobRender

JobSpec == InitJob /\ [][NextJob]_vars

(***************************************************************************)
(* renderBeforeAfterView of js/app.js over API.fetchCommitDetail.          *)
(***************************************************************************)
\* Longest list of commits handed to renderBeforeAfterView.
MaxCommits == 11

\* commits.slice(0, 10)
EntryLimit == 10

\* A line of a pre-computed file diff.
diffLine(type, text) == [type |-> type, content |-> <<text>>]

\* commit.files of the commit the server holds under the n-th sha: files
\* with a diff, a file without a diff property, the same filename in two
\* commits, a commit without a files property.
CommitFiles(n) ==
    CASE n % 3 = 1 -> <<[filename |-> "f",
                         diff |-> <<diffLine("del", "a"), diffLine("add", "b"),
                                    diffLine("unchanged", "c")>>],
                        [filename |-> "g"]>>
      [] n % 3 = 2 -> <<[filename |-> "f", diff |-> <<diffLine("add", "a")>>]>>
      [] OTHER -> <<>>

\* The commit object the server holds under the n-th sha.
ServerDetail(n) ==
    IF n % 3 = 0 THEN [sha |-> n] ELSE [sha |-> n, files |-> CommitFiles(n)]

\* fetchCommitDetail: files: commit.files || []
fetchCommitDetail(commit) ==
    [sha |-> commit.sha,
     files |-> IF "files" \in DOMAIN commit THEN commit.files ELSE <<>>]

commitKey(sha) == <<"commit", sha>>

\* { type: 'unchanged', content: `=== ${file.filename} ===` }
separatorLine(file) ==
    [type |-> "unchanged", content |-> <<"=== ", file.filename, " ===">>]

emptyLine == [type |-> "empty", content |-> <<"">>]

\* Variant: a 'del' or 'add' line gets no empty line on the other side.
RECURSIVE pushDiffLinesNoEmpty(_, _)
pushDiffLinesNoEmpty(lists, lines) ==
    IF lines = <<>> THEN lists
    ELSE LET line == Head(lines) IN
         pushDiffLinesNoEmpty(
             IF line.type = "del"
             THEN [left |-> Append(lists.left, line), right |-> lists.right]
             ELSE IF line.type = "add"
             THEN [left |-> lists.left, right |-> Append(lists.right, line)]
             ELSE [left |-> Append(lists.left, line),
                   right |-> Append(lists.right, line)],
             Tail(lines))

\* The body of the loop over file.diff || [], on the pair of lists.
RECURSIVE pushDiffLines(_, _)
pushDiffLines(lists, lines) ==
    IF lines = <<>> THEN lists
    ELSE LET line == Head(lines) IN
         pushDiffLines(
             IF line.type = "del"
             THEN [left |-> Append(lists.left, line),
                   right |-> Append(lists.right, emptyLine)]
             ELSE IF line.type = "add"
             THEN [left |-> Append(lists.left, emptyLine),
                   right |-> Append(lists.right, line)]
             ELSE [left |-> Append(lists.left, line),
                   right |-> Append(lists.right, line)],
             Tail(lines))

\* Variant: the separator is pushed after the lines of the file.
pushFileSeparatorLast(lists, file) ==
    LET after == pushDiffLines(lists, IF "diff" \in DOMAIN file THEN file.diff ELSE <<>>)
    IN  [left |-> Append(after.left, separatorLine(file)),
         right |-> Append(after.right, separatorLine(file))]

\* The body of the loop over detail.files || []: the separator on both
\* lists, then the lines of file.diff || [].
pushFile(lists, file) ==
    pushDiffLines([left |-> Append(lists.left, separatorLine(file)),
                   right |-> Append(lists.right, separatorLine(file))],
                  IF "diff" \in DOMAIN file THEN file.diff ELSE <<>>)

RECURSIVE pushFiles(_, _)
pushFiles(lists, files) ==
    IF files = <<>> THEN lists
    ELSE pushFiles(pushFile(lists, Head(files)), Tail(files))

\* renderDiffPane(lines, container): one div per line with its class, its
\* marker and its content.
renderDiffPane(lines) ==
    [r \in 1..Len(lines) |->
        [class |-> lines[r].type,
         marker |-> IF lines[r].type = "add" THEN "+"
                    ELSE IF lines[r].type = "del" THEN "-" ELSE " ",
         content |-> lines[r].content]]

\* commits.slice(0, 10)
sliceLimit(commits) ==
    SubSeq(commits, 1, IF Len(commits) < EntryLimit THEN Len(commits) ELSE EntryLimit)

\* The try block of renderBeforeAfterView once it has the detail.
withDetail(vw, detail) ==
    LET lists == pushFiles([left |-> vw.leftLines, right |-> vw.rightLines],
                           detail.files)
    IN  [vw EXCEPT !.leftLines = lists.left, !.rightLines = lists.right,
                   !.loaded = Append(@, detail.sha), !.k = @ + 1]

\* renderBeforeAfterView from the point where it runs, up to its next await
\* of a network response or to its end: the loop over commits.slice(0, 10),
\* where fetchCommitDetail returns a fresh cache entry without a request,
\* then renderDiffPane on both lists.
RECURSIVE viewAdvance(_, _, _)
viewAdvance(vw, cache, now) ==
    LET todo == sliceLimit(vw.commits) IN
    IF vw.k > Len(todo)
    THEN [vw EXCEPT !.pc = "rendered", !.diffLeft = renderDiffPane(vw.leftLines),
                    !.diffRight = renderDiffPane(vw.rightLines)]
    ELSE IF cacheHit(cache, commitKey(todo[vw.k]), now, HourTtl)
    THEN viewAdvance(withDetail(vw, fetchCommitDetail(cache[commitKey(todo[vw.k])].data)),
                     cache, now)
    ELSE [vw EXCEPT !.pc = "await",
             !.inflight = {[k |-> vw.k, stage |-> 1]},
             !.started = Append(@, vw.k)]

\* <div class="no-results"><p>Aucune modification.</p></div>
noResultsPane == <<[class |-> "no-results", marker |-> "", content |-> <<"Aucune modification.">>]>>

\* renderBeforeAfterView(repoName, commits) is called.
ViewStart ==
    /\ view.pc = "idle"
    /\ view' = IF Len(view.commits) = 0
               THEN [view EXCEPT !.pc = "rendered", !.diffLeft = noResultsPane,
                                 !.diffRight = noResultsPane]
               ELSE viewAdvance(view, api.cache, api.now)
    /\ UNCHANGED <<diffVars, unifiedRows, proj, api, job, form, pageVars>>

\* The fetch of the request in flight settles: fetchWithFallback, then
\* fetchWithCache, fetchCommitDetail and the try or the catch block of
\* renderBeforeAfterView, up to the next await.
ViewSettleOn(r, outcome) ==
    LET fb == fetchWithFallback(r.stage, outcome, api.useCorsProxy)
        rest == view.inflight \ {r}
        sha == sliceLimit(view.commits)[r.k]
    IN
    IF fb.then = "retry"
    THEN /\ view' = [view EXCEPT !.inflight = rest \cup {[r EXCEPT !.stage = 2]}]
         /\ api' = [api EXCEPT !.useCorsProxy = fb.useCorsProxy]
    ELSE IF fb.then = "resolve"
    THEN /\ api' = [api EXCEPT !.useCorsProxy = fb.useCorsProxy,
                        !.cache = cacheSet(@, commitKey(sha), ServerDetail(sha), api.now)]
         /\ view' = LET vw == withDetail([view EXCEPT !.inflight = rest],
                                         fetchCommitDetail(ServerDetail(sha)))
                    IN  IF rest = {} THEN viewAdvance(vw, api'.cache, api.now) ELSE vw
    ELSE /\ api' = [api EXCEPT !.useCorsProxy = fb.useCorsProxy]
         /\ view' = LET vw == [view EXCEPT !.inflight = rest, !.k = @ + 1,
                                           !.failed = Append(@, sha)]
                    IN  IF rest = {} THEN viewAdvance(vw, api.cache, api.now) ELSE vw

ViewSettle ==
    /\ view.pc = "await"
    /\ \E r \in view.inflight : \E outcome \in Outcomes : ViewSettleOn(r, outcome)
    /\ UNCHANGED <<diffVars, unifiedRows, proj, job, form, pageVars>>

\* The lists of commits of a request: the shas 1..n in the order of the
\* server, and a list that names a commit twice.
CommitLists ==
    {[c \in 1..n |-> c] : n \in 0..MaxCommits} \cup {<<1, 2, 1>>}

InitView ==
    /\ oldContent = Null
    /\ newContent = Null
    /\ InitDiff
    /\ InitPage
    /\ api = ApiInit
    /\ job = JobInit
    /\ view \in {ViewIdle(commits) : commits \in CommitLists}
    /\ form = FormInit

NextView == ViewStart \/ ViewSettle

ViewSpec == InitView /\ [][NextView]_vars

\* The two aggregations on one page: getCommitDiff over the files of a
\* commit and renderBeforeAfterView over the commits of a request.
InitAgg == InitJob \/ InitView

NextAgg == NextJob \/ NextView

AggSpec == InitAgg /\ [][NextAgg]_vars

(***************************************************************************)
(* The form of js/app.js: validateForm on change events, the compare click. *)
(***************************************************************************)
\* Most compare clicks in a run.
MaxClicks == 2

\* The dates a user picks in a date input.
Dates ==
    {[year |-> y, month |-> m, day |-> 1] : y \in {2023, 2024, 10000}, m \in {1, 12}}

\* The values a date input takes: empty, or the string of a date.
DateValues == {<<>>} \cup {formatDateForInput(d) : d \in Dates}

\* The values of the code selector: the placeholder option and a code.
CodeValues == {"", "code_civil"}

\* The code unit of a character of a date string.
charCode(c) ==
    CASE c = "-" -> 45 [] c = "0" -> 48 [] c = "1" -> 49 [] c = "2" -> 50
      [] c = "3" -> 51 [] c = "4" -> 52 [] c = "5" -> 53 [] c = "6" -> 54
      [] c = "7" -> 55 [] c = "8" -> 56 [] OTHER -> 57

\* a < b on two strings: the comparison of JavaScript, code unit by code unit.
RECURSIVE stringLess(_, _)
stringLess(a, b) ==
    IF b = <<>> THEN FALSE
    ELSE IF a = <<>> THEN TRUE
    ELSE IF charCode(Head(a)) # charCode(Head(b))
    THEN charCode(Head(a)) < charCode(Head(b))
    ELSE stringLess(Tail(a), Tail(b))

\* codeSelect.value && dateStart.value && dateEnd.value
\*     && dateStart.value < dateEnd.value, as a boolean.
formValid(fm) ==
    /\ fm.code # ""
    /\ fm.dateStart # <<>>
    /\ fm.dateEnd # <<>>
    /\ stringLess(fm.dateStart, fm.dateEnd)

\* Variant: validateForm leaves the button as it is.
validateFormNoButton(fm) == fm

\* validateForm: btnCompare.disabled = !valid
validateForm(fm) == [fm EXCEPT !.disabled = ~formValid(fm)]

\* change event of the code selector.
ChangeCode ==
    /\ \E c \in CodeValues :
           /\ c # form.code
           /\ form' = [validateForm([form EXCEPT !.code = c]) EXCEPT !.last = "change"]
    /\ UNCHANGED <<diffVars, unifiedRows, proj, api, job, view, pageVars>>

\* change event of the start date.
ChangeStart ==
    /\ \E d \in DateValues :
           /\ d # form.dateStart
           /\ form' = [validateForm([form EXCEPT !.dateStart = d]) EXCEPT !.last = "change"]
    /\ UNCHANGED <<diffVars, unifiedRows, proj, api, job, view, pageVars>>

\* change event of the end date.
ChangeEnd ==
    /\ \E d \in DateValues :
           /\ d # form.dateEnd
           /\ form' = [validateForm([form EXCEPT !.dateEnd = d]) EXCEPT !.last = "change"]
    /\ UNCHANGED <<diffVars, unifiedRows, proj, api, job, view, pageVars>>

\* ttl of fetchRepositories and of fetchCommits.
ReposTtl == 600000
CommitsTtl == 60000

\* The JSON the server gives for a url at a time.
ServerData(key, now) == [of |-> key, served |-> now]

\* showLoading: the loading indicator is shown, the error banner and the
\* results are hidden (TRUE: the element is visible).
showLoading(fm) == [fm EXCEPT !.loading = TRUE, !.error = FALSE, !.results = FALSE]

hideLoading(fm) == [fm EXCEPT !.loading = FALSE]

\* Variant: showError leaves the loading indicator as it is.
showErrorKeepLoading(fm, msg) == [fm EXCEPT !.errorMessage = msg, !.error = TRUE]

\* showError(msg): the message, the error banner shown, then hideLoading().
showError(fm, msg) == hideLoading([fm EXCEPT !.errorMessage = msg, !.error = TRUE])

\* cacheKey of fetchCommits.
compareKey(repoName, since, until) == <<"commits", repoName, since, until>>

\* The compare handler after its await of API.fetchCommits: hideLoading(),
\* the results shown, currentCommits assigned.
compareDone(fm, data) ==
    [hideLoading(fm) EXCEPT !.results = TRUE, !.currentCommits = <<data>>]

\* click on the compare button (a disabled button gets no click): the
\* handler returns when validateForm fails; otherwise it calls showLoading
\* and API.fetchCommits(repoName, since, until), which returns a fresh cache
\* entry or sends a request.
ClickCompare ==
    /\ ~form.disabled
    /\ form.clicks < MaxClicks
    /\ form' =
         LET fm == [validateForm(form) EXCEPT
                        !.last = "click", !.clicks = @ + 1,
                        !.issued = IF formValid(form)
                                   THEN [repoName |-> form.code, since |-> form.dateStart,
                                         until |-> form.dateEnd]
                                   ELSE @]
             key == compareKey(form.code, form.dateStart, form.dateEnd)
         IN  IF ~formValid(form) THEN fm
             ELSE IF cacheHit(api.cache, key, api.now, CommitsTtl)
             THEN compareDone(showLoading(fm), api.cache[key].data)
             ELSE [showLoading(fm) EXCEPT
                       !.pending = @ \cup {[click |-> fm.clicks, key |-> key, stage |-> 1]}]
    /\ UNCHANGED <<diffVars, unifiedRows, proj, api, job, view, pageVars>>

\* The fetch of a compare request settles: fetchWithFallback, fetchWithCache
\* and the rest of the click handler, its try block or its catch block.
CompareSettleOn(r, outcome) ==
    LET fb == fetchWithFallback(r.stage, outcome, api.useCorsProxy)
        rest == [form EXCEPT !.pending = @ \ {r}]
    IN
    IF fb.then = "retry"
    THEN /\ form' = [form EXCEPT !.pending = (@ \ {r}) \cup {[r EXCEPT !.stage = 2]}]
         /\ api' = [api EXCEPT !.useCorsProxy = fb.useCorsProxy]
    ELSE IF fb.then = "resolve"
    THEN /\ api' = [api EXCEPT !.useCorsProxy = fb.useCorsProxy,
                        !.cache = cacheSet(@, r.key, ServerData(r.key, api.now), api.now)]
         /\ form' = compareDone(rest, ServerData(r.key, api.now))
    ELSE /\ api' = [api EXCEPT !.useCorsProxy = fb.useCorsProxy]
         /\ form' = showError(rest, <<"Erreur: ", fb.error.message>>)

CompareSettle ==
    /\ \E r \in form.pending : \E outcome \in Outcomes : CompareSettleOn(r, outcome)
    /\ UNCHANGED <<diffVars, unifiedRows, proj, job, view, pageVars>>

\* The form when the listeners are added: API.fetchRepositories resolved, or
\* it rejected and the catch block called showError.
FormLoaded(disabled) ==
    {FormIdle(disabled),
     showError(FormIdle(disabled),
               <<"Impossible de charger la liste des codes: ", "Failed to fetch">>)}

InitForm ==
    /\ oldContent = Null
    /\ newContent = Null
    /\ InitDiff
    /\ InitPage
    /\ api = ApiInit
    /\ job = JobInit
    /\ view = ViewInit
    /\ form \in UNION {FormLoaded(disabled) : disabled \in BOOLEAN}

NextForm == ChangeCode \/ ChangeStart \/ ChangeEnd \/ ClickCompare

FormSpec == InitForm /\ [][NextForm]_vars

\* The compare form with the completions of its requests.
NextCompare == ChangeCode \/ ChangeEnd \/ ClickCompare \/ CompareSettle

CompareSpec == InitForm /\ [][NextCompare]_vars

(***************************************************************************)
(* Concurrent fetchWithCache calls of the API module (js/ui.js) and the    *)
(* clock: fetchRepositories and fetchCommits called from the page.         *)
(***************************************************************************)
\* Most fetchWithCache calls in a run.
MaxNetCalls == 2

\* Most advances of the clock in a run.
MaxTicks == 2

\* cacheKey of fetchRepositories and of fetchCommits (one repository, one
\* date range).
reposKey == <<"repos">>
commitsKey == <<"commits", "code_civil">>
NetKeys == {reposKey, commitsKey}

ttlOf(key) == IF key = reposKey THEN ReposTtl ELSE CommitsTtl

\* The clock advances by half the ttl of fetchCommits.
TickStep == CommitsTtl \div 2

\* buildUrl(path): the url itself, or the url behind CORS_PROXY.
buildUrl(path, useCorsProxy) ==
    [via |-> IF useCorsProxy THEN "proxy" ELSE "direct", url |-> path]

\* fetchWithCache(url, cacheKey, ttl) is called: it returns the data of a
\* fresh cache entry, or calls fetchWithFallback, which sends the request
\* of its try block to buildUrl(url).
fetchWithCache(key, cache, now, useCorsProxy) ==
    LET frame == [key |-> key, ttl |-> ttlOf(key), at |-> now,
                  found |-> IF key \in DOMAIN cache THEN <<cache[key]>> ELSE <<>>,
                  pc |-> "fetch", stage |-> 1, requests |-> <<>>, outcomes |-> <<>>,
                  value |-> <<>>, error |-> <<>>]
    IN  IF cacheHit(cache, key, now, ttlOf(key))
        THEN [frame EXCEPT !.pc = "resolved", !.value = <<cache[key].data>>]
        ELSE [frame EXCEPT !.requests = <<buildUrl(key, useCorsProxy)>>]

NetCall ==
    /\ Len(calls) < MaxNetCalls
    /\ \E key \in NetKeys :
           calls' = Append(calls, fetchWithCache(key, api.cache, api.now,
                                                 api.useCorsProxy))
    /\ UNCHANGED <<diffVars, unifiedRows, proj, api, job, view, form, changes, scroll>>

\* The fetch a call awaits settles: fetchWithFallback resolves, rejects or
\* sets useCorsProxy and sends the request again; fetchWithCache stores the
\* data when fetchWithFallback resolved.
NetSettleOn(c, outcome) ==
    LET frame == calls[c]
        fb == fetchWithFallback(frame.stage, outcome, api.useCorsProxy)
        seen == [frame EXCEPT !.outcomes = Append(@, outcome)]
    IN
    IF fb.then = "retry"
    THEN /\ api' = [api EXCEPT !.useCorsProxy = fb.useCorsProxy]
         /\ calls' = [calls EXCEPT ![c] =
                [seen EXCEPT !.stage = 2,
                    !.requests = Append(@, buildUrl(frame.key, fb.useCorsProxy))]]
    ELSE IF fb.then = "resolve"
    THEN /\ api' = [api EXCEPT !.cache = cacheSet(@, frame.key,
                                       ServerData(frame.key, api.now), api.now)]
         /\ calls' = [calls EXCEPT ![c] =
                [seen EXCEPT !.pc = "resolved",
                    !.value = <<ServerData(frame.key, api.now)>>]]
    ELSE /\ api' = api
         /\ calls' = [calls EXCEPT ![c] =
                [seen EXCEPT !.pc = "rejected", !.error = <<fb.error>>]]

NetSettle ==
    /\ \E c \in DOMAIN calls :
           /\ calls[c].pc = "fetch"
           /\ \E outcome \in Outcomes : NetSettleOn(c, outcome)
    /\ UNCHANGED <<diffVars, unifiedRows, proj, job, view, form, changes, scroll>>

\* Time passes (Date.now()).
Tick ==
    /\ api.now < MaxTicks * TickStep
    /\ api' = [api EXCEPT !.now = @ + TickStep]
    /\ UNCHANGED <<diffVars, unifiedRows, proj, job, view, form, pageVars>>

InitNet ==
    /\ oldContent = Null
    /\ newContent = Null
    /\ InitDiff
    /\ api = ApiInit
    /\ job = JobInit
    /\ view = ViewInit
    /\ form = FormInit
    /\ calls = CallsInit
    /\ changes = ChangesInit
    /\ scroll = ScrollInit

NextNet == NetCall \/ NetSettle \/ Tick

NetSpec == InitNet /\ [][NextNet]_vars

(***************************************************************************)
(* The changes view of js/app.js: clicks on the commits of the list and    *)
(* renderCommitDetail over API.fetchCommitDetail.                          *)
(***************************************************************************)
\* Most clicks on commits in a run.
MaxCommitClicks == 3

\* The commits of the list (currentCommits), by sha.
ListedShas == {1, 2}

\* renderCommitDetail once it has the detail: the header of the commit, and
\* its files or "Aucun changement.".
detailShown(ch, detail) ==
    [ch EXCEPT !.header = <<detail.sha>>,
               !.diff = [kind |-> IF Len(detail.files) = 0 THEN "no-results" ELSE "files",
                         sha |-> detail.sha]]

\* The continuation of await API.fetchCommitDetail in renderCommitDetail.
detailSettled(ch, click, detail) == detailShown(ch, detail)

\* The catch block of renderCommitDetail: the error in place of the diff.
detailFailed(ch, sha) == [ch EXCEPT !.diff = [kind |-> "error", sha |-> sha]]

\* click on a commit of the list: renderCommitDetail(repoName, commit) puts
\* the spinner in the diff and calls API.fetchCommitDetail, which returns
\* a fresh cache entry or sends a request.
ClickCommit ==
    /\ Len(changes.clicks) < MaxCommitClicks
    /\ \E sha \in ListedShas :
           LET click == Len(changes.clicks) + 1
               loading == [changes EXCEPT !.diff = [kind |-> "loading", sha |-> sha]]
           IN  changes' =
                   IF cacheHit(api.cache, commitKey(sha), api.now, HourTtl)
                   THEN detailSettled(
                            [loading EXCEPT !.clicks = Append(@, [sha |-> sha, then |-> "cached"])],
                            click, fetchCommitDetail(api.cache[commitKey(sha)].data))
                   ELSE [loading EXCEPT
                            !.clicks = Append(@, [sha |-> sha, then |-> "pending"]),
                            !.pending = @ \cup {[click |-> click, sha |-> sha, stage |-> 1]}]
    /\ UNCHANGED <<diffVars, unifiedRows, proj, api, job, view, form, calls, scroll>>

\* The fetch of a pending request settles: fetchWithFallback, fetchWithCache,
\* fetchCommitDetail, then the rest of renderCommitDetail.
DetailSettleOn(r, outcome) ==
    LET fb == fetchWithFallback(r.stage, outcome, api.useCorsProxy)
        rest == changes.pending \ {r}
    IN
    IF fb.then = "retry"
    THEN /\ api' = [api EXCEPT !.useCorsProxy = fb.useCorsProxy]
         /\ changes' = [changes EXCEPT !.pending = rest \cup {[r EXCEPT !.stage = 2]}]
    ELSE IF fb.then = "resolve"
    THEN /\ api' = [api EXCEPT !.cache = cacheSet(@, commitKey(r.sha),
                                                  ServerDetail(r.sha), api.now)]
         /\ changes' = detailSettled(
                [changes EXCEPT !.pending = rest, !.clicks[r.click].then = "ok"],
                r.click, fetchCommitDetail(ServerDetail(r.sha)))
    ELSE /\ api' = api
         /\ changes' = detailFailed(
                [changes EXCEPT !.pending = rest, !.clicks[r.click].then = "failed"],
                r.sha)

DetailSettle ==
    /\ \E r \in changes.pending : \E outcome \in Outcomes : DetailSettleOn(r, outcome)
    /\ UNCHANGED <<diffVars, unifiedRows, proj, job, view, form, calls, scroll>>

InitChanges == InitNet

NextChanges == ClickCommit \/ DetailSettle

ChangesSpec == InitChanges /\ [][NextChanges]_vars

(***************************************************************************)
(* Scroll synchronisation of the side-by-side view (js/app.js).            *)
(***************************************************************************)
\* Greatest scrollTop of a pane.
MaxPos == 2

\* Most scrolls by the user in a run.
MaxScrolls == 3

Panes == {"left", "right"}

otherPane(p) == IF p = "left" THEN "right" ELSE "left"

\* The user scrolls a pane: its scrollTop changes and the browser queues a
\* scroll event for it (one event per pane at most is pending).
UserScroll ==
    /\ Len(scroll.scrolls) < MaxScrolls
    /\ \E p \in Panes, pos \in 0..MaxPos :
           /\ pos # scroll.top[p]
           /\ scroll' = [scroll EXCEPT !.top[p] = pos, !.events = @ \cup {p},
                                       !.scrolls = Append(@, [pane |-> p, pos |-> pos])]
    /\ UNCHANGED <<diffVars, appVarsButScroll>>

\* The scroll listener of a pane: nothing while syncing; else syncing =
\* true, the other pane gets this pane's scrollTop (which queues a scroll
\* event for it when its position changes) and the 10 ms timer is set.
scrollHandler(sc, p) ==
    IF sc.syncing THEN sc
    ELSE [sc EXCEPT !.syncing = TRUE,
                    !.top[otherPane(p)] = sc.top[p],
                    !.events = IF sc.top[otherPane(p)] # sc.top[p]
                               THEN @ \cup {otherPane(p)} ELSE @,
                    !.timers = @ + 1]

\* The browser dispatches the pending scroll event of a pane.
ScrollEvent ==
    /\ \E p \in scroll.events :
           scroll' = scrollHandler([scroll EXCEPT !.events = @ \ {p}], p)
    /\ UNCHANGED <<diffVars, appVarsButScroll>>

\* A timer set by a handler fires: syncing = false.
TimerFires ==
    /\ scroll.timers > 0
    /\ scroll' = [scroll EXCEPT !.syncing = FALSE, !.timers = @ - 1]
    /\ UNCHANGED <<diffVars, appVarsButScroll>>

InitScroll == InitNet

NextScroll == UserScroll \/ ScrollEvent \/ TimerFires

ScrollSpec == InitScroll /\ [][NextScroll]_vars

\* The same machine with the scheduling of a synchronous call: once in the
\* while loop, the loop keeps iterating and the function returns.
LiveSpec == Spec /\ WF_vars(BacktrackStep) /\ WF_vars(Return)

(***************************************************************************)
(* Vocabulary of the properties.                                           *)
(***************************************************************************)
Returned == pc \in {"done", "rendered", "unified"}

Keep(diff, types) == SelectSeq(diff, LAMBDA op : op.type \in types)
Contents(diff) == [k \in 1..Len(diff) |-> diff[k].content]
Count(diff, type) == Len(Keep(diff, {type}))
OldNumbers(diff) ==
    LET s == Keep(diff, {"unchanged", "del"}) IN [k \in 1..Len(s) |-> s[k].oldLine]
NewNumbers(diff) ==
    LET s == Keep(diff, {"unchanged", "add"}) IN [k \in 1..Len(s) |-> s[k].newLine]
Iota(n) == [k \in 1..n |-> k]
HasAllKinds(diff) ==
    /\ \E k \in DOMAIN diff : diff[k].type = "unchanged"
    /\ \E k \in DOMAIN diff : diff[k].type = "add"
    /\ \E k \in DOMAIN diff : diff[k].type = "del"

\* Reference definition of the length of a longest common subsequence, by
\* enumeration of the subsequences of a.
RECURSIVE IsSubseq(_, _)
IsSubseq(s, t) ==
    IF s = <<>> THEN TRUE
    ELSE IF t = <<>> THEN FALSE
    ELSE IF Head(s) = Head(t) THEN IsSubseq(Tail(s), Tail(t))
    ELSE IsSubseq(s, Tail(t))

RECURSIVE SubSeqs(_)
SubSeqs(s) ==
    IF s = <<>> THEN {<<>>}
    ELSE LET r == SubSeqs(Tail(s)) IN r \cup {<<Head(s)>> \o x : x \in r}

LCSLength(a, b) ==
    LET lens == {Len(s) : s \in {x \in SubSeqs(a) : IsSubseq(x, b)}}
    IN  CHOOSE x \in lens : \A y \in lens : y <= x

(***************************************************************************)
(* C1 - Round trip: in the script a computeDiff call returned, the         *)
(* contents of the 'unchanged' and 'add' ops, in order, are the new line   *)
(* sequence, and the contents of the 'unchanged' and 'del' ops, in order,  *)
(* are the old line sequence (absent and empty texts included).            *)
(***************************************************************************)
C1_RoundTrip ==
    Returned =>
        /\ Contents(Keep(result, {"unchanged", "add"})) = newLines
        /\ Contents(Keep(result, {"unchanged", "del"})) = oldLines

C1_Witness ==
    /\ pc = "done"
    /\ HasAllKinds(result)
    /\ Len(oldLines) >= 3
    /\ Len(newLines) >= 3

(***************************************************************************)
(* C2 - Coverage: the oldLine numbers of the 'unchanged' and 'del' ops are *)
(* 1..m in increasing order, the newLine numbers of the 'unchanged' and    *)
(* 'add' ops are 1..n in increasing order; so #unchanged + #del = m,       *)
(* #unchanged + #add = n and the length is #unchanged + #add + #del.       *)
(***************************************************************************)
C2_Coverage ==
    Returned =>
        /\ OldNumbers(result) = Iota(Len(oldLines))
        /\ NewNumbers(result) = Iota(Len(newLines))
        /\ Count(result, "unchanged") + Count(result, "del") = Len(oldLines)
        /\ Count(result, "unchanged") + Count(result, "add") = Len(newLines)
        /\ Len(result) = Count(result, "unchanged") + Count(result, "add")
                         + Count(result, "del")

C2_Witness ==
    /\ pc = "done"
    /\ HasAllKinds(result)
    /\ Len(oldLines) >= 2
    /\ Len(newLines) >= 3

(***************************************************************************)
(* C3 - Minimality: the number of 'unchanged' ops of the returned script   *)
(* is the length of a longest common subsequence of the two line           *)
(* sequences, which is table[m][n] when the table is built; so the script  *)
(* has m + n - 2 * LCS 'add' and 'del' ops, the least a covering script    *)
(* can have (its 'unchanged' ops form a common subsequence).               *)
(***************************************************************************)
C3_Minimality ==
    /\ pc = "backtrack" =>
           table[Len(oldLines)][Len(newLines)] = LCSLength(oldLines, newLines)
    /\ Returned =>
           /\ Count(result, "unchanged") = LCSLength(oldLines, newLines)
           /\ Count(result, "add") + Count(result, "del")
                  = Len(oldLines) + Len(newLines) - 2 * LCSLength(oldLines, newLines)

C3_Witness ==
    /\ pc = "done"
    /\ HasAllKinds(result)
    /\ Count(result, "unchanged") >= 2
    /\ Len(oldLines) # Len(newLines)

(***************************************************************************)
(* C4 - Identity: computeDiff(S, S) has only 'unchanged' ops, one per line *)
(* of S in order, op k carrying line k with oldLine = newLine = k.         *)
(***************************************************************************)
C4_Identity ==
    (Returned /\ oldContent = newContent) =>
        /\ Len(result) = Len(oldLines)
        /\ \A k \in DOMAIN result :
               /\ result[k].type = "unchanged"
               /\ result[k].content = oldLines[k]
               /\ result[k].oldLine = k
               /\ result[k].newLine = k

C4_Witness ==
    /\ pc = "done"
    /\ oldContent = newContent
    /\ Len(result) >= 3
    /\ \E k \in DOMAIN result : result[k].content # result[1].content

(***************************************************************************)
(* C5 - Both inputs absent or empty: when each input is null, undefined or *)
(* the empty string, in any combination, the call returns the empty script *)
(* and raises nothing.                                                     *)
(***************************************************************************)
C5_BothAbsent ==
    (pc # "idle" /\ ~Truthy(oldContent) /\ ~Truthy(newContent)) =>
        /\ Returned
        /\ result = <<>>

C5_Witness ==
    /\ pc = "done"
    /\ oldContent = Null
    /\ newContent = Str(<<>>)
    /\ result = <<>>

(***************************************************************************)
(* C6 - One input absent or empty: with the old text absent the script is  *)
(* one 'add' op per new line, in order, with newLine 1..n and no oldLine;  *)
(* with the new text absent it is one 'del' op per old line, in order,     *)
(* with oldLine 1..m and no newLine.                                       *)
(***************************************************************************)
C6_OneAbsent ==
    /\ (pc # "idle" /\ ~Truthy(oldContent) /\ Truthy(newContent)) =>
           /\ Returned
           /\ Len(result) = Len(newLines)
           /\ \A k \in DOMAIN result :
                  /\ DOMAIN result[k] = {"type", "content", "newLine"}
                  /\ result[k].type = "add"
                  /\ result[k].content = newLines[k]
                  /\ result[k].newLine = k
    /\ (pc # "idle" /\ Truthy(oldContent) /\ ~Truthy(newContent)) =>
           /\ Returned
           /\ Len(result) = Len(oldLines)
           /\ \A k \in DOMAIN result :
                  /\ DOMAIN result[k] = {"type", "content", "oldLine"}
                  /\ result[k].type = "del"
                  /\ result[k].content = oldLines[k]
                  /\ result[k].oldLine = k

C6_Witness ==
    /\ pc = "done"
    /\ oldContent = Str(<<"a", "\n", "b">>)
    /\ newContent = Null
    /\ result = <<delOp(<<"a">>, 1), delOp(<<"b">>, 2)>>

(***************************************************************************)
(* C7 - Totality: a computeDiff call never raises and returns; every       *)
(* iteration of the backtrack loop takes one of its three branches and     *)
(* strictly decreases i + j, neither index going below 0, so a call that   *)
(* is in the loop leaves it and returns.                                   *)
(***************************************************************************)
InLoop == pc = "backtrack" /\ (i > 0 \/ j > 0)

C7_Totality ==
    /\ [](pc # "threw")
    /\ [](InLoop => backtrackBranch(table, oldLines, newLines, i, j)
                        \in {"unchanged", "add", "del"})
    /\ [][InLoop => (i' + j' < i + j /\ i' >= 0 /\ j' >= 0)]_vars
    /\ ((pc = "backtrack") ~> (pc = "done"))

C7_Witness ==
    /\ pc = "done"
    /\ HasAllKinds(result)
    /\ Len(result) >= 5

(***************************************************************************)
(* C9 - Row count: for a script returned by computeDiff, the left and the  *)
(* right track of renderSideBySideDiff both have exactly one row per op    *)
(* of the script; a 'del' followed by an 'add' stays two rows.             *)
(***************************************************************************)
C9_RowCount ==
    pc = "rendered" =>
        /\ Len(leftLines) = Len(result)
        /\ Len(rightLines) = Len(result)

C9_Witness ==
    /\ pc = "rendered"
    /\ Len(leftLines) >= 3
    /\ \E k \in 1..(Len(result) - 1) :
           result[k].type = "del" /\ result[k + 1].type = "add"

(***************************************************************************)
(* C10 - Row k comes from op k alone: 'unchanged' gives a left cell        *)
(* (content, oldLine) and a right cell (content, newLine); 'del' gives a   *)
(* left cell (content, oldLine) and an empty right placeholder; 'add'      *)
(* gives an empty left placeholder and a right cell (content, newLine).    *)
(***************************************************************************)
IsCell(cell, type, content, lineNum) ==
    /\ cell.type = type
    /\ cell.content = content
    /\ cell.lineNum = lineNum

IsPlaceholder(cell) ==
    /\ cell.type = "empty"
    /\ cell.content = <<>>
    /\ cell.lineNum = <<>>

C10_RowOfOp ==
    pc = "rendered" =>
        \A k \in DOMAIN result :
            /\ k \in DOMAIN leftLines
            /\ k \in DOMAIN rightLines
            /\ LET op == result[k] IN
               CASE op.type = "unchanged" ->
                       /\ IsCell(leftLines[k], "unchanged", op.content, op.oldLine)
                       /\ IsCell(rightLines[k], "unchanged", op.content, op.newLine)
                 [] op.type = "del" ->
                       /\ IsCell(leftLines[k], "del", op.content, op.oldLine)
                       /\ IsPlaceholder(rightLines[k])
                 [] op.type = "add" ->
                       /\ IsPlaceholder(leftLines[k])
                       /\ IsCell(rightLines[k], "add", op.content, op.newLine)
                 [] OTHER -> FALSE

C10_Witness ==
    /\ pc = "rendered"
    /\ HasAllKinds(result)
    /\ \E k \in DOMAIN result :
           result[k].type = "unchanged" /\ result[k].oldLine # result[k].newLine

(***************************************************************************)
(* C8 - Determinism and statelessness: two completed computeDiff calls     *)
(* with the same arguments returned equal scripts, whatever calls were     *)
(* made before or between them, and from its invocation to its return a    *)
(* call changes neither its arguments nor the scripts returned earlier.    *)
(***************************************************************************)
C8_Deterministic ==
    /\ [](\A a \in DOMAIN history : \A b \in DOMAIN history :
              (history[a].old = history[b].old /\ history[a].new = history[b].new)
                  => history[a].script = history[b].script)
    /\ [][(pc = "idle" \/ pc = "backtrack") =>
              (oldContent' = oldContent /\ newContent' = newContent
               /\ history' = history)]_vars

C8_Witness ==
    /\ Len(history) = 3
    /\ history[1].old = history[3].old
    /\ history[1].new = history[3].new
    /\ HasAllKinds(history[3].script)
    /\ history[2].old # history[1].old
    /\ history[2].script # <<>>

(***************************************************************************)
(* C11 - Unified projection: renderUnifiedDiff emits one row per op, in    *)
(* script order, with the op's kind marker, its content, and a line        *)
(* number that is oldLine for 'del', newLine for 'add' and one of the two  *)
(* line numbers of the op for 'unchanged'.                                 *)
(***************************************************************************)
C11_UnifiedRows ==
    pc = "unified" =>
        /\ Len(unifiedRows) = Len(result)
        /\ \A k \in DOMAIN result :
               LET op == result[k]
                   row == unifiedRows[k]
               IN  /\ row.class = op.type
                   /\ row.content = op.content
                   /\ CASE op.type = "add" ->
                              row.marker = "+" /\ row.lineNum = toDecimal(op.newLine)
                        [] op.type = "del" ->
                              row.marker = "-" /\ row.lineNum = toDecimal(op.oldLine)
                        [] op.type = "unchanged" ->
                              /\ row.marker = " "
                              /\ row.lineNum \in {toDecimal(op.oldLine),
                                                  toDecimal(op.newLine)}
                        [] OTHER -> FALSE

C11_Witness ==
    /\ pc = "unified"
    /\ HasAllKinds(result)
    /\ \E k \in DOMAIN result :
           result[k].type = "unchanged" /\ result[k].oldLine # result[k].newLine

(***************************************************************************)
(* C12 - Pure projections: renderSideBySideDiff, renderUnifiedDiff and     *)
(* getDiffStats leave the script they are given as it was (length, order,  *)
(* fields of every op), and a projection called again, after any other     *)
(* projections, returns what it returned the first time.                   *)
(***************************************************************************)
C12_PureProjections ==
    /\ [](\A name \in DOMAIN proj.last : proj.last[name] = proj.first[name])
    /\ [][(pc = "done" /\ pc' = "done") => result' = result]_vars

C12_Witness ==
    /\ Len(proj.log) = 3
    /\ proj.log[1] = "sideBySide"
    /\ proj.log[2] = "stats"
    /\ proj.log[3] = "sideBySide"
    /\ HasAllKinds(result)

\* C13: for every entry of the report of a commit, the addition count shown
\* for the entry is the number of 'add' ops, and the deletion count the
\* number of 'del' ops, of the script computed on the entry's two contents.
C13_EntryCounts ==
    job.pc = "rendered" =>
        \A e \in DOMAIN job.report.entries :
            LET entry == job.report.entries[e] IN
            /\ entry.script = computeDiff(orEmpty(job.diffs[e].previousContent),
                                          orEmpty(job.diffs[e].currentContent))
            /\ entry.additions = Count(entry.script, "add")
            /\ entry.deletions = Count(entry.script, "del")

RECURSIVE SumOf(_, _)
SumOf(entries, f) ==
    IF entries = <<>> THEN 0 ELSE entries[1][f] + SumOf(Tail(entries), f)

\* C15: the totals of the report are the sums of the addition counts and of
\* the deletion counts of its entries, and a commit without files gives a
\* report with no entry and zero totals.
C15_Totals ==
    job.pc = "rendered" =>
        /\ job.report.additions = SumOf(job.report.entries, "additions")
        /\ job.report.deletions = SumOf(job.report.entries, "deletions")
        /\ Len(job.files) = 0 =>
               /\ job.report.files = 0
               /\ job.report.entries = <<>>
               /\ job.report.additions = 0
               /\ job.report.deletions = 0

\* C18: a retrieval of a file that fails (404, 500, network error, also
\* after the retry through the proxy) gives null to getCommitDiff, which
\* never fails on it; the cache holds a file only under the key of a
\* retrieval that succeeded; and the script of an entry with a null side
\* has only 'add' ops (no previous content) or only 'del' ops (no current).
C18_FileNeverFails ==
    /\ \A s \in DOMAIN job.settled :
           /\ job.settled[s].outcome # "ok" => job.settled[s].value = Null
           /\ job.settled[s].outcome = "ok" => job.settled[s].value # Null
    /\ \A key \in DOMAIN api.cache :
           key[1] = "file" =>
               /\ api.cache[key].data # Null
               /\ \E s \in DOMAIN job.settled :
                      job.settled[s].key = key /\ job.settled[s].outcome = "ok"
    /\ job.pc = "failed" => job.settled = <<>>
    /\ job.pc = "rendered" =>
           \A e \in DOMAIN job.report.entries :
               LET script == job.report.entries[e].script IN
               /\ job.diffs[e].previousContent = Null =>
                      Keep(script, {"add"}) = script
               /\ job.diffs[e].currentContent = Null =>
                      Keep(script, {"del"}) = script

C18_Witness ==
    /\ job.pc = "rendered"
    /\ api.useCorsProxy
    /\ Len(job.settled) = 4
    /\ job.settled[1].outcome = "ok"
    /\ job.settled[2].outcome = "http404"
    /\ job.settled[3].outcome = "network"
    /\ job.settled[4].outcome = "ok"
    /\ Len(job.report.entries[1].script) = 2
    /\ Len(job.report.entries[2].script) = 2

\* The files whose sections the view holds: those of the loaded commits.
RECURSIVE LoadedFiles(_)
LoadedFiles(shas) ==
    IF shas = <<>> THEN <<>>
    ELSE fetchCommitDetail(ServerDetail(Head(shas))).files \o LoadedFiles(Tail(shas))

DiffOf(file) == IF "diff" \in DOMAIN file THEN file.diff ELSE <<>>

\* The row at which the section of each file starts, the first at row `at'.
RECURSIVE Starts(_, _)
Starts(files, at) ==
    IF files = <<>> THEN <<>>
    ELSE <<at>> \o Starts(Tail(files), at + 1 + Len(DiffOf(Head(files))))

RECURSIVE RowTotal(_)
RowTotal(files) ==
    IF files = <<>> THEN 0 ELSE 1 + Len(DiffOf(Head(files))) + RowTotal(Tail(files))

IsSeparatorRow(row) ==
    /\ Len(row.content) = 3
    /\ row.content[1] = "=== "
    /\ row.content[3] = " ==="

Range(seq) == {seq[x] : x \in DOMAIN seq}

\* The rows of both panes are those of the loaded files.
ViewRendered == view.pc = "rendered" /\ Len(view.commits) > 0

\* C16: in the rendered before/after view, the row that starts the section
\* of each file is a separator on both sides, it carries the filename and a
\* class that is neither add nor del, and no other row is a separator.
C16_Separators ==
    ViewRendered =>
        LET files == LoadedFiles(view.loaded)
            starts == Starts(files, 1)
        IN  /\ Len(view.diffLeft) = RowTotal(files)
            /\ Len(view.diffRight) = RowTotal(files)
            /\ \A m \in DOMAIN files :
                   \A pane \in {view.diffLeft, view.diffRight} :
                       /\ IsSeparatorRow(pane[starts[m]])
                       /\ pane[starts[m]].content[2] = files[m].filename
                       /\ pane[starts[m]].class \notin {"add", "del"}
            /\ \A r \in 1..RowTotal(files) :
                   r \notin Range(starts) =>
                       /\ ~IsSeparatorRow(view.diffLeft[r])
                       /\ ~IsSeparatorRow(view.diffRight[r])

C16_Witness ==
    /\ ViewRendered
    /\ view.loaded = <<1, 2, 4>>
    /\ view.failed = <<3>>
    /\ Len(view.diffLeft) = 12

\* C17: the before/after view processes at most 10 commits of a request,
\* and when the request has more, each pane ends with a notice row, one
\* row after the rows of the sections, that is not a separator.
C17_CapNotice ==
    ViewRendered =>
        /\ Len(view.loaded) + Len(view.failed) <= 10
        /\ Len(view.commits) > 10 =>
               \A pane \in {view.diffLeft, view.diffRight} :
                   /\ Len(pane) = RowTotal(LoadedFiles(view.loaded)) + 1
                   /\ ~IsSeparatorRow(pane[Len(pane)])

\* The retrievals getCommitDiff has started, as (k, side) with the commit
\* object first, and those settled.
JobOrder(st) ==
    IF st.kind = "commit" THEN 0 ELSE IF st.kind = "current" THEN 2 * st.k ELSE 2 * st.k + 1

\* C19: in getCommitDiff and in renderBeforeAfterView at most one retrieval
\* is in flight, retrievals start in the order of the entries (for a file,
\* the current content before the previous one), and when a retrieval
\* starts, all those started before it have settled.
C19_Sequential ==
    /\ Cardinality(job.inflight) <= 1
    /\ Cardinality(view.inflight) <= 1
    /\ \A a, b \in DOMAIN job.started :
           a < b => JobOrder(job.started[a]) < JobOrder(job.started[b])
    /\ \A a, b \in DOMAIN view.started : a < b => view.started[a] < view.started[b]
    /\ \A a \in DOMAIN job.started :
           \/ job.started[a].kind = "commit" /\ (a < Len(job.started) \/ job.pc # "await")
           \/ \E x \in DOMAIN job.settled :
                  /\ job.settled[x].kind = job.started[a].kind
                  /\ job.settled[x].k = job.started[a].k
           \/ /\ a = Len(job.started)
              /\ \E r \in job.inflight :
                     r.kind = job.started[a].kind /\ r.k = job.started[a].k
    /\ \A a \in DOMAIN view.started :
           \/ sliceLimit(view.commits)[view.started[a]]
                  \in Range(view.loaded) \cup Range(view.failed)
           \/ /\ a = Len(view.started)
              /\ \E r \in view.inflight : r.k = view.started[a]

C19_Witness ==
    /\ job.pc = "await"
    /\ Len(job.started) = 5
    /\ Len(job.settled) = 3
    /\ \E r \in job.inflight : r.kind = "previous" /\ r.k = 2 /\ r.stage = 2

\* The date a value of a date input stands for.
DateOf(value) == CHOOSE d \in Dates \cup {Today, OneMonthAgo} : formatDateForInput(d) = value

\* d is a day before e.
Before(d, e) ==
    \/ d.year < e.year
    \/ d.year = e.year /\ d.month < e.month
    \/ d.year = e.year /\ d.month = e.month /\ d.day < e.day

\* A code is chosen, both dates are set, the start is before the end.
ValidForm(code, since, until) ==
    /\ code # ""
    /\ since # <<>>
    /\ until # <<>>
    /\ Before(DateOf(since), DateOf(until))

\* C20: the compare click calls fetchCommits only with a code, two dates
\* and a start date before the end date, and after a change of the code or
\* of a date the compare button is disabled exactly when the form is not
\* in that case.
C20_ValidCompare ==
    /\ form.issued # <<>> =>
           ValidForm(form.issued.repoName, form.issued.since, form.issued.until)
    /\ form.last = "change" =>
           (form.disabled <=> ~ValidForm(form.code, form.dateStart, form.dateEnd))

(***************************************************************************)
(* C24 - LCS table: on entry of the backtrack and during it, for every     *)
(* 0 <= r <= m and 0 <= c <= n, table[r][c] is the length of a longest     *)
(* common subsequence of the first r old lines and the first c new lines,  *)
(* lines being equal when they are the same string; row 0 and column 0     *)
(* hold 0.                                                                 *)
(***************************************************************************)
C24_TableEntries ==
    pc = "backtrack" =>
        /\ DOMAIN table = 0..Len(oldLines)
        /\ \A r \in 0..Len(oldLines) :
               /\ DOMAIN table[r] = 0..Len(newLines)
               /\ \A c \in 0..Len(newLines) :
                      /\ table[r][c] = LCSLength(SubSeq(oldLines, 1, r),
                                                 SubSeq(newLines, 1, c))
                      /\ (r = 0 \/ c = 0) => table[r][c] = 0

C24_Witness ==
    /\ pc = "backtrack"
    /\ Len(oldLines) = 3
    /\ Len(newLines) = 2
    /\ table[3][2] = 2
    /\ table[2][2] = 1
    /\ table[1][1] = 0

(***************************************************************************)
(* C25 - Tie-break: an iteration of the backtrack at (i, j) with i > 0,    *)
(* j > 0 and different lines emits an 'add' when table[i][j-1] >=          *)
(* table[i-1][j] and a 'del' otherwise; with i = 0 it emits an 'add', with *)
(* j = 0 a 'del'. For old = [x, y] and new = [y, x] with x # y, the script *)
(* is del x (old 1), unchanged y (old 2, new 1), add x (new 2).            *)
(***************************************************************************)
C25_TieBreak ==
    /\ [][InLoop =>
            IF i > 0 /\ j > 0 /\ oldLines[i] = newLines[j]
            THEN result' = <<unchangedOp(oldLines[i], i, j)>> \o result
            ELSE IF i = 0 \/ (j > 0 /\ table[i][j - 1] >= table[i - 1][j])
            THEN (result' = <<addOp(newLines[j], j)>> \o result /\ i' = i /\ j' = j - 1)
            ELSE (result' = <<delOp(oldLines[i], i)>> \o result /\ i' = i - 1 /\ j' = j)]_vars
    /\ []((/\ Returned
           /\ Len(oldLines) = 2
           /\ Len(newLines) = 2
           /\ oldLines[1] # oldLines[2]
           /\ newLines = <<oldLines[2], oldLines[1]>>)
          => result = <<delOp(oldLines[1], 1), unchangedOp(oldLines[2], 2, 1),
                        addOp(oldLines[1], 2)>>)

C25_Witness ==
    /\ pc = "done"
    /\ oldLines = <<<<"a">>, <<"b">>>>
    /\ newLines = <<<<"b">>, <<"a">>>>
    /\ Len(result) = 3

(***************************************************************************)
(* C27 - In the script a computeDiff call returned, and in the part of it  *)
(* the backtrack has built so far, an 'add' op is never immediately        *)
(* followed by a 'del' op.                                                 *)
(***************************************************************************)
C27_DelBeforeAdd ==
    (pc = "backtrack" \/ Returned) =>
        \A k \in 1..(Len(result) - 1) :
            ~(result[k].type = "add" /\ result[k + 1].type = "del")

C27_Witness ==
    /\ pc = "done"
    /\ Len(result) >= 5
    /\ \E k \in 1..(Len(result) - 3) :
           /\ result[k].type = "del"
           /\ result[k + 1].type = "del"
           /\ result[k + 2].type = "add"
           /\ result[k + 3].type = "add"
    /\ \E k \in DOMAIN result : result[k].type = "unchanged"

(***************************************************************************)
(* C23 - CORS fallback: every call whose direct request failed with a      *)
(* network error has sent a second request, through the proxy, and when    *)
(* that one succeeded the call resolved with its data; also with several   *)
(* calls in flight.                                                        *)
(***************************************************************************)
C23_FallbackRetry ==
    \A c \in DOMAIN calls :
        LET frame == calls[c] IN
        (/\ Len(frame.outcomes) >= 1
         /\ frame.requests[1].via = "direct"
         /\ frame.outcomes[1] = "network") =>
            /\ Len(frame.requests) = 2
            /\ frame.requests[2].via = "proxy"
            /\ frame.pc # "rejected" \/ Len(frame.outcomes) = 2
            /\ (Len(frame.outcomes) = 2 /\ frame.outcomes[2] = "ok") =>
                   (frame.pc = "resolved" /\ frame.value # <<>>)

(***************************************************************************)
(* C26 - Cache: a fetchWithCache call that finds an entry younger than its *)
(* ttl returns the data of the entry and sends no request; a call that     *)
(* finds no entry, or one of age >= ttl, sends a request; the cache        *)
(* changes only when a call resolves from the network, by the entry of its *)
(* key, so a failed request leaves it as it is, and the call of a failed   *)
(* request is rejected with the error of the request.                      *)
(***************************************************************************)
C26_Cache ==
    /\ [](\A c \in DOMAIN calls :
            LET frame == calls[c] IN
            IF frame.found # <<>> /\ frame.at - frame.found[1].timestamp < frame.ttl
            THEN /\ frame.pc = "resolved"
                 /\ frame.requests = <<>>
                 /\ frame.value = <<frame.found[1].data>>
            ELSE /\ Len(frame.requests) >= 1
                 /\ frame.pc = "resolved" =>
                        /\ frame.outcomes[Len(frame.outcomes)] = "ok"
                        /\ frame.key \in DOMAIN api.cache
                 /\ frame.pc = "rejected" =>
                        /\ frame.outcomes[Len(frame.outcomes)] # "ok"
                        /\ frame.error =
                               <<fetchError(frame.outcomes[Len(frame.outcomes)])>>)
    /\ [][api'.cache # api.cache =>
            \E c \in DOMAIN calls :
                /\ calls[c].pc = "fetch"
                /\ calls'[c].pc = "resolved"
                /\ calls'[c].outcomes[Len(calls'[c].outcomes)] = "ok"
                /\ api'.cache = (calls[c].key :>
                                    [data |-> calls'[c].value[1], timestamp |-> api.now])
                                 @@ api.cache]_vars
    /\ [][\A c \in DOMAIN calls :
            (calls[c].pc = "fetch" /\ calls'[c].pc = "rejected") =>
                api'.cache = api.cache]_vars

C26_Witness ==
    /\ Len(calls) = 2
    /\ calls[1].key = commitsKey
    /\ calls[2].key = commitsKey
    /\ calls[1].pc = "resolved"
    /\ calls[2].pc = "resolved"
    /\ calls[1].at = 0
    /\ calls[2].at = TickStep
    /\ calls[2].requests = <<>>
    /\ calls[2].value = calls[1].value

(***************************************************************************)
(* C28 - useCorsProxy is monotonic: false until a direct request failed    *)
(* with a network error, never reset once true; a request sent while it is *)
(* true goes to the proxy, a request that fails while it is true rejects   *)
(* its call without another request, and no call sends more than two       *)
(* requests.                                                               *)
(***************************************************************************)
C28_ProxyFlag ==
    /\ [](api.useCorsProxy =>
            \E c \in DOMAIN calls :
                /\ Len(calls[c].outcomes) >= 1
                /\ calls[c].requests[1].via = "direct"
                /\ calls[c].outcomes[1] = "network")
    /\ [][api.useCorsProxy => api'.useCorsProxy]_vars
    /\ [](\A c \in DOMAIN calls : Len(calls[c].requests) <= 2)
    /\ [][api.useCorsProxy =>
            /\ Len(calls') > Len(calls) =>
                   \A r \in DOMAIN calls'[Len(calls')].requests :
                       calls'[Len(calls')].requests[r].via = "proxy"
            /\ \A c \in DOMAIN calls :
                   /\ Len(calls'[c].requests) > Len(calls[c].requests) =>
                          calls'[c].requests[Len(calls'[c].requests)].via = "proxy"
                   /\ (/\ Len(calls'[c].outcomes) > Len(calls[c].outcomes)
                       /\ calls'[c].outcomes[Len(calls'[c].outcomes)] # "ok") =>
                          /\ calls'[c].pc = "rejected"
                          /\ calls'[c].requests = calls[c].requests]_vars

C28_Witness ==
    /\ api.useCorsProxy
    /\ Len(calls) = 2
    /\ calls[1].outcomes = <<"network", "ok">>
    /\ calls[1].pc = "resolved"
    /\ calls[2].requests = <<buildUrl(calls[2].key, TRUE)>>
    /\ calls[2].outcomes = <<"network">>
    /\ calls[2].pc = "rejected"

(***************************************************************************)
(* C21 - Changes view: when no commit-detail request is pending and the    *)
(* requests of all the clicks succeeded, the header and the diff of the    *)
(* detail pane are those of the commit clicked last.                       *)
(***************************************************************************)
C21_LastClickShown ==
    (/\ changes.clicks # <<>>
     /\ changes.pending = {}
     /\ \A c \in DOMAIN changes.clicks : changes.clicks[c].then \in {"ok", "cached"}) =>
        LET last == changes.clicks[Len(changes.clicks)].sha IN
        /\ changes.header = <<last>>
        /\ changes.diff.sha = last
        /\ changes.diff.kind \in {"files", "no-results"}

(***************************************************************************)
(* C22 - Scroll synchronisation: after some scrolls by the user, when no   *)
(* scroll event is pending and no guard timer is pending, both panes have  *)
(* the scroll position of the pane scrolled last.                          *)
(***************************************************************************)
C22_ScrollSync ==
    (/\ scroll.scrolls # <<>>
     /\ scroll.events = {}
     /\ scroll.timers = 0) =>
        /\ scroll.top["left"] = scroll.scrolls[Len(scroll.scrolls)].pos
        /\ scroll.top["right"] = scroll.scrolls[Len(scroll.scrolls)].pos

\* The number of diff lines of a list of files.
RECURSIVE LineTotal(_)
LineTotal(files) ==
    IF files = <<>> THEN 0 ELSE Len(DiffOf(Head(files))) + LineTotal(Tail(files))

(***************************************************************************)
(* C29 - Before/after aggregation: leftLines and rightLines have the same  *)
(* length in every state, one row for each file header and one for each    *)
(* diff line of the loaded commits; a commit whose request fails adds no   *)
(* row to either list and the loop goes on with the next commit, so that   *)
(* the view is rendered with each of the first 10 commits loaded or        *)
(* failed.                                                                 *)
(***************************************************************************)
C29_SameLength ==
    /\ [](/\ Len(view.leftLines) = Len(view.rightLines)
          /\ Len(view.leftLines) =
                 Len(LoadedFiles(view.loaded)) + LineTotal(LoadedFiles(view.loaded)))
    /\ [][Len(view'.failed) > Len(view.failed) =>
            /\ Len(view'.loaded) = Len(view.loaded) =>
                  /\ view'.leftLines = view.leftLines
                  /\ view'.rightLines = view.rightLines
            /\ view'.k > view.k
            /\ view'.pc \in {"await", "rendered"}
            /\ view'.pc = "await" =>
                  /\ view'.k <= Len(view.commits)
                  /\ view'.k <= 10
                  /\ view'.inflight # {}]_vars
    /\ [](ViewRendered =>
            /\ Len(view.loaded) + Len(view.failed)
                   = (IF Len(view.commits) < 10 THEN Len(view.commits) ELSE 10)
            /\ Len(view.diffLeft) = Len(view.leftLines)
            /\ Len(view.diffRight) = Len(view.rightLines))

C29_Witness ==
    /\ ViewRendered
    /\ Len(view.commits) = 11
    /\ view.failed = <<1, 10>>
    /\ view.loaded = <<2, 3, 4, 5, 6, 7, 8, 9>>
    /\ Len(view.leftLines) = 16

(***************************************************************************)
(* C30 - In every state of the page, whatever the order of the compare     *)
(* clicks and of the completions of their requests, the loading indicator  *)
(* and the error banner are not both visible; a step that shows the        *)
(* loading indicator leaves the error banner hidden and a step that shows  *)
(* the error banner leaves the loading indicator hidden.                   *)
(***************************************************************************)
C30_LoadingOrError ==
    /\ [](~(form.loading /\ form.error))
    /\ [][(form'.loading /\ ~form.loading) => ~form'.error]_vars
    /\ [][(form'.error /\ ~form.error) => ~form'.loading]_vars
    /\ [][Cardinality(form'.pending) > Cardinality(form.pending) =>
            form'.loading /\ ~form'.error]_vars
    /\ [][Cardinality(form'.pending) < Cardinality(form.pending) =>
            ~form'.loading /\ (form'.error \/ form'.results)]_vars

C30_Witness ==
    /\ form.clicks = 2
    /\ form.error
    /\ ~form.loading
    /\ form.errorMessage = <<"Erreur: ", "HTTP 500">>
    /\ Cardinality(form.pending) = 1

====
